---------------------------- MODULE Spec2Model ----------------------------
(***************************************************************************)
(* Schema resolution pipeline of the editor backend:                       *)
(*   src-tauri/src/parser.rs         heuristic parser of the content       *)
(*                                   config (comment stripper, delimiter   *)
(*                                   matcher, helper scanner, field path   *)
(*                                   resolver, heuristic serializer)       *)
(*   src-tauri/src/schema_merger.rs  JSON-Schema interpreter and merger    *)
(*                                                                         *)
(* Text is a sequence of characters (one-character strings).  Positions    *)
(* are 0-based as in the Rust source; a regex match position and a str     *)
(* slice bound are BYTE offsets, an index into Vec<char> is a CHARACTER    *)
(* index.  A Rust panic is the value Panic.                                *)
(***************************************************************************)
EXTENDS Integers, Sequences, FiniteSets, TLC

VARIABLES
    pc,            \* position of the call under analysis
    shape,         \* structure the input text was written from
    schema_text,   \* parser.rs: schema body handed to extract_zod_special_fields
    probe,         \* parser.rs: one helper match and what was computed for it
    zod_out,       \* parser.rs: result of extract_zod_special_fields
    any_of,        \* schema_merger.rs: branch list handed to handle_anyof_type
    type_info,     \* schema_merger.rs: FieldTypeInfo returned for any_of
    json_schema,   \* schema_merger.rs: json_schema argument (deserialized form)
    zod_schema,    \* schema_merger.rs: zod_schema argument (deserialized form)
    result,        \* schema_merger.rs: Result<SchemaDefinition, String>
    config_text,   \* parser.rs: text of the content config file
    dirs,          \* paths of the directories that exist in the project
    collections    \* parser.rs: result of parse_collections_from_content

vars == <<pc, shape, schema_text, probe, zod_out, any_of, type_info,
          json_schema, zod_schema, result, config_text, dirs, collections>>

-----------------------------------------------------------------------------
(* Bounds of the model                                                     *)

MaxDepth == 2
MaxWide == 10

-----------------------------------------------------------------------------
(* Characters and strings                                                  *)

Wide == "U+00E9"    \* a two-byte character (an accented letter)

Lower == {"a","b","c","d","e","f","g","h","i","j","k","l","m","n","o","p","q",
          "r","s","t","u","v","w","x","y","z"}
Upper == {"A","B","C","D","E","F","G","H","I","J","K","L","M","N","O","P","Q",
          "R","S","T","U","V","W","X","Y","Z"}
Digit == {"0","1","2","3","4","5","6","7","8","9"}

\* char::is_whitespace
IsWhitespace(ch) == ch \in {" ", "\n", "\t", "\r"}
\* char::is_alphanumeric (Unicode: the accented letter is a letter)
IsAlphanumeric(ch) == ch \in Lower \cup Upper \cup Digit \cup {Wide}
\* char::len_utf8
LenUtf8(ch) == IF ch = Wide THEN 2 ELSE 1

None == [tag |-> "None"]
Panic == [tag |-> "Panic"]
Some(v) == [tag |-> "Some", val |-> v]

\* `let v = e;` followed by Body: v is computed once and handed to Body
With(v, Body(_)) == Body(v)

\* str::len: the number of bytes
ByteLen(s) == Len(s) + Cardinality({k \in DOMAIN s : s[k] = Wide})

\* byte offset of the character with 0-based index ci (ci = Len(s): the end)
ByteOf(s, ci) == ci + Cardinality({k \in 1..ci : s[k] = Wide})

\* 0-based character index that starts at byte offset b, or -1 when b is not
\* a character boundary of s (str::is_char_boundary)
CharAtByte(s, b) ==
    LET least == b - (ByteLen(s) - Len(s))
        candidates == {ci \in 0..Len(s) : least <= ci /\ ci <= b}
    IN  IF \E ci \in candidates : ByteOf(s, ci) = b
        THEN CHOOSE ci \in candidates : ByteOf(s, ci) = b
        ELSE -1

\* &s[from..to] with byte offsets: panics off a boundary or when from > to
StrSlice(s, from, to) ==
    With(CharAtByte(s, from), LAMBDA a :
    With(CharAtByte(s, to), LAMBDA b :
        IF a < 0 \/ b < 0 \/ from > to THEN Panic
        ELSE Some(SubSeq(s, a + 1, b))))

\* str::contains
Contains(s, pat) ==
    \E i \in 0..(Len(s) - Len(pat)) : SubSeq(s, i + 1, i + Len(pat)) = pat

RECURSIVE JoinWith(_, _)
JoinWith(parts, sep) ==
    IF parts = <<>> THEN <<>>
    ELSE IF Len(parts) = 1 THEN parts[1]
    ELSE parts[1] \o sep \o JoinWith(Tail(parts), sep)

RECURSIVE Reverse(_)
Reverse(s) == IF s = <<>> THEN <<>> ELSE Reverse(Tail(s)) \o <<Head(s)>>

RECURSIVE Repeat(_, _)
Repeat(ch, n) == IF n <= 0 THEN <<>> ELSE <<ch>> \o Repeat(ch, n - 1)

-----------------------------------------------------------------------------
(* Regular expressions (regex crate): a pattern is a sequence of items,    *)
(* each a literal text or a character class with a greedy repetition;      *)
(* matching is leftmost-first with backtracking.                           *)

\* lo: least number of repetitions; many: TRUE for an unbounded repetition
Cls(set, lo, many) ==
    [neg |-> FALSE, set |-> set, lo |-> lo, many |-> many, lit |-> <<>>]
NotCls(set, lo, many) ==
    [neg |-> TRUE, set |-> set, lo |-> lo, many |-> many, lit |-> <<>>]
One(set) == <<Cls(set, 1, FALSE)>>
Lit(s) == <<[neg |-> FALSE, set |-> {}, lo |-> 1, many |-> FALSE, lit |-> s]>>
ReSpace == {" ", "\n", "\t", "\r"}                           \* \s
ReWord == Lower \cup Upper \cup Digit \cup {"_", Wide}       \* \w (Unicode)
WsStar == <<Cls(ReSpace, 0, TRUE)>>
WsPlus == <<Cls(ReSpace, 1, TRUE)>>

InCls(item, ch) == IF item.neg THEN ch \notin item.set ELSE ch \in item.set

\* the longest run of characters of the item's class at character index i
ReRun(text, item, i) ==
    IF i >= Len(text) \/ ~InCls(item, text[i + 1]) THEN 0
    ELSE IF ~item.many THEN 1
    ELSE LET stops == {j \in (i + 1)..Len(text) :
                          j = Len(text) \/ ~InCls(item, text[j + 1])}
         IN  (CHOOSE j \in stops : \A k \in stops : j <= k) - i

ReFail == [ok |-> FALSE, ends |-> <<>>]

\* match items k.. of pat at character index i; ends[j] is the index just
\* past item k+j-1
RECURSIVE ReMatch(_, _, _, _)
RECURSIVE ReTry(_, _, _, _, _)
ReTry(text, pat, i, k, n) ==
    IF n < pat[k].lo THEN ReFail
    ELSE LET r == ReMatch(text, pat, i + n, k + 1)
         IN  IF r.ok THEN [ok |-> TRUE, ends |-> <<i + n>> \o r.ends]
             ELSE ReTry(text, pat, i, k, n - 1)
ReMatch(text, pat, i, k) ==
    IF k > Len(pat) THEN [ok |-> TRUE, ends |-> <<>>]
    ELSE IF pat[k].lit # <<>>
    THEN LET n == Len(pat[k].lit)
         IN  IF i + n <= Len(text) /\ SubSeq(text, i + 1, i + n) = pat[k].lit
             THEN LET r == ReMatch(text, pat, i + n, k + 1)
                  IN  IF r.ok THEN [ok |-> TRUE, ends |-> <<i + n>> \o r.ends]
                      ELSE ReFail
             ELSE ReFail
    ELSE ReTry(text, pat, i, k, ReRun(text, pat[k], i))

NoMatch == [ok |-> FALSE, start |-> 0, end |-> 0, ends |-> <<>>]

\* Regex::find from character index `from`: the leftmost match
ReFindFrom(text, pat, from) ==
    With({i \in from..Len(text) : ReMatch(text, pat, i, 1).ok}, LAMBDA starts :
        IF starts = {} THEN NoMatch
        ELSE With(CHOOSE i \in starts : \A j \in starts : i <= j, LAMBDA start :
             With(ReMatch(text, pat, start, 1), LAMBDA r :
                 [ok |-> TRUE, start |-> start,
                  end |-> IF r.ends = <<>> THEN start ELSE r.ends[Len(r.ends)],
                  ends |-> r.ends])))

ReFind(text, pat) == ReFindFrom(text, pat, 0)

\* Regex::find_iter / captures_iter: successive non-overlapping matches
RECURSIVE ReFindAllFrom(_, _, _)
ReFindAllFrom(text, pat, from) ==
    With(ReFindFrom(text, pat, from), LAMBDA m :
        IF ~m.ok THEN <<>>
        ELSE <<m>> \o ReFindAllFrom(text, pat,
                                    IF m.end > m.start THEN m.end ELSE m.end + 1))

ReFindAll(text, pat) == ReFindAllFrom(text, pat, 0)

-----------------------------------------------------------------------------
(* parser.rs: helper call scanner                                          *)

KwImage == <<"i","m","a","g","e">>
KwReference == <<"r","e","f","e","r","e","n","c","e">>
KwArrayCall == <<"z",".","a","r","r","a","y","(">>
KwObjectCall == <<"z",".","o","b","j","e","c","t","(">>
KwStringCall == <<"z",".","s","t","r","i","n","g","(",")">>
Quotes == {"'", "\""}

\* image\s*\(\s*\)
image_re == Lit(KwImage) \o WsStar \o Lit(<<"(">>) \o WsStar \o Lit(<<")">>)

\* reference\s*\(\s*['"]([^'"]+)['"]\s*\)
reference_re ==
    Lit(KwReference) \o WsStar \o Lit(<<"(">>) \o WsStar \o One(Quotes)
        \o <<NotCls(Quotes, 1, TRUE)>> \o One(Quotes) \o WsStar \o Lit(<<")">>)

\* capture group 1 of reference_re: the item after the opening quote
ReferenceTarget(text, m) ==
    SubSeq(text, m.ends[5] + 1, m.ends[6])

HelperMatch(type, position, collection_name) ==
    [helper_type |-> type, position |-> position,
     collection_name |-> collection_name]

\* the image() matches first, then the reference() matches; position is the
\* byte offset of the match
find_helper_calls(text) ==
    With(ReFindAll(text, image_re), LAMBDA images :
    With(ReFindAll(text, reference_re), LAMBDA refs :
        [i \in 1..Len(images) |->
            HelperMatch("Image", ByteOf(text, images[i].start), <<>>)]
        \o
        [i \in 1..Len(refs) |->
            HelperMatch("Reference", ByteOf(text, refs[i].start),
                        ReferenceTarget(text, refs[i]))]))

-----------------------------------------------------------------------------
(* parser.rs: field path resolver.  chars is schema_text.chars().collect(); *)
(* chars[i] panics when i >= chars.len().                                   *)

IsIdentChar(ch) == IsAlphanumeric(ch) \/ ch = "_" \/ ch = "$"

RECURSIVE SkipWhitespaceBack(_, _)
SkipWhitespaceBack(chars, field_end) ==
    IF field_end > 0 /\ IsWhitespace(chars[field_end])
    THEN SkipWhitespaceBack(chars, field_end - 1)
    ELSE field_end

RECURSIVE SkipIdentBack(_, _)
SkipIdentBack(chars, field_start) ==
    IF field_start > 0 /\ IsIdentChar(chars[field_start])
    THEN SkipIdentBack(chars, field_start - 1)
    ELSE field_start

\* the greatest element of a non-empty set of positions
Greatest(S) == CHOOSE p \in S : \A q \in S : q <= p

\* the loop `while pos > 0` of find_field_name_backwards, taken from one
\* colon to the next (no other character has an effect)
RECURSIVE find_field_name_backwards(_, _)
find_field_name_backwards(chars, pos) ==
    IF pos <= 0 THEN None
    ELSE IF pos >= Len(chars) THEN Panic
    ELSE LET colons == {p \in 1..pos : chars[p + 1] = ":"}
         IN  IF colons = {} THEN None
             ELSE With(Greatest(colons), LAMBDA colon :
                  With(SkipWhitespaceBack(chars, colon), LAMBDA field_end :
                  With(SkipIdentBack(chars, field_end), LAMBDA field_start :
                      IF field_start < field_end
                      THEN Some(SubSeq(chars, field_start + 1, field_end))
                      ELSE find_field_name_backwards(chars, colon - 1))))

\* the loop `while pos > 0` of is_inside_array, taken to the first colon
\* it meets; the slice is taken with the character index pos used as a byte
\* offset
InsideArrayScan(chars, pos, helper_position) ==
    IF pos <= 0 THEN Some(FALSE)
    ELSE IF pos >= Len(chars) THEN Panic
    ELSE LET colons == {p \in 1..pos : chars[p + 1] = ":"}
         IN  IF colons = {} THEN Some(FALSE)
             ELSE With(StrSlice(chars, Greatest(colons), helper_position),
                       LAMBDA between :
                           IF between.tag = "Panic" THEN Panic
                           ELSE Some(Contains(between.val, KwArrayCall)))

is_inside_array(text, helper_position) ==
    InsideArrayScan(text, helper_position, helper_position)

find_immediate_field_name(text, position) ==
    find_field_name_backwards(text, position)

\* the loop `while current_pos > 0` of build_parent_path, taken from one
\* brace to the next (no other character has an effect)
RECURSIVE ParentPathScan(_, _, _, _)
ParentPathScan(chars, current_pos, brace_level, path_components) ==
    IF current_pos <= 0 THEN Some(path_components)
    ELSE IF current_pos - 1 >= Len(chars) THEN Panic
    ELSE LET braces == {p \in 0..(current_pos - 1) : chars[p + 1] \in {"{", "}"}}
         IN  IF braces = {} THEN Some(path_components)
             ELSE With(Greatest(braces), LAMBDA pos :
                      IF chars[pos + 1] = "}"
                      THEN ParentPathScan(chars, pos, brace_level + 1,
                                          path_components)
                      ELSE IF brace_level - 1 < 0
                      THEN With(find_field_name_backwards(chars, pos), LAMBDA parent :
                               IF parent.tag = "Panic" THEN Panic
                               ELSE IF parent.tag = "None"
                               THEN Some(path_components)
                               ELSE ParentPathScan(chars, pos, 0,
                                      IF /\ path_components # <<>>
                                         /\ path_components[Len(path_components)]
                                              = parent.val
                                      THEN path_components
                                      ELSE Append(path_components, parent.val)))
                      ELSE ParentPathScan(chars, pos, brace_level - 1,
                                          path_components))

build_parent_path(text, start_position) ==
    ParentPathScan(text, start_position, 0, <<>>)

Ok(v) == [tag |-> "Ok", val |-> v]
Err(e) == [tag |-> "Err", err |-> e]

resolve_field_path(text, helper_position) ==
    With(find_immediate_field_name(text, helper_position), LAMBDA field_name :
        IF field_name.tag = "Panic" THEN Panic
        ELSE IF field_name.tag = "None" THEN Err("Could not find field name")
        ELSE With(build_parent_path(text, helper_position), LAMBDA parent_fields :
                 IF parent_fields.tag = "Panic" THEN Panic
                 ELSE Ok(JoinWith(Reverse(<<field_name.val>> \o parent_fields.val),
                                  <<".">>))))

-----------------------------------------------------------------------------
(* parser.rs: heuristic schema serializer.  A field is the JSON object     *)
(* written by serde_json::json!; an absent key is <<>>, a present one <<v>>. *)

EmptyObject == <<>>

\* the JSON text of a heuristic schema: well_formed tells whether it is
\* JSON at all; the keys `type` and `fields` may be missing
ZodDocument(well_formed, type, fields) ==
    [well_formed |-> well_formed, type |-> type, fields |-> fields]

ZodFieldJson(name, type, array_type, referenced, array_referenced) ==
    [name |-> name, type |-> type, arrayType |-> array_type,
     referencedCollection |-> referenced,
     arrayReferenceCollection |-> array_referenced,
     optional |-> TRUE, default |-> <<>>, options |-> <<>>,
     constraints |-> <<EmptyObject>>]

\* the `if in_array { match helper_type .. } else { match helper_type .. }`
field_json(field_path, helper, in_array) ==
    IF in_array
    THEN IF helper.helper_type = "Image"
         THEN ZodFieldJson(field_path, "Array", <<"Image">>, <<>>, <<>>)
         ELSE ZodFieldJson(field_path, "Array", <<"Reference">>, <<>>,
                           <<helper.collection_name>>)
    ELSE IF helper.helper_type = "Image"
         THEN ZodFieldJson(field_path, "Image", <<>>, <<>>, <<>>)
         ELSE ZodFieldJson(field_path, "Reference", <<>>,
                           <<helper.collection_name>>, <<>>)

\* the loop `for helper in helpers` of extract_zod_special_fields
RECURSIVE ExtractLoop(_, _, _, _)
ExtractLoop(text, helpers, i, fields_json) ==
    IF i > Len(helpers) THEN Some(fields_json)
    ELSE With(helpers[i], LAMBDA helper :
         With(resolve_field_path(text, helper.position), LAMBDA path :
             IF path.tag = "Panic" THEN Panic
             ELSE IF path.tag = "Err"
             THEN ExtractLoop(text, helpers, i + 1, fields_json)
             ELSE With(is_inside_array(text, helper.position), LAMBDA in_array :
                      IF in_array.tag = "Panic" THEN Panic
                      ELSE ExtractLoop(text, helpers, i + 1,
                              Append(fields_json,
                                     field_json(path.val, helper, in_array.val))))))

extract_zod_special_fields(text) ==
    With(find_helper_calls(text), LAMBDA helpers :
        IF helpers = <<>> THEN None
        ELSE With(ExtractLoop(text, helpers, 1, <<>>), LAMBDA fields_json :
                 IF fields_json.tag = "Panic" THEN Panic
                 ELSE IF fields_json.val # <<>>
                 THEN Some(ZodDocument(TRUE, <<"zod">>, <<fields_json.val>>))
                 ELSE None))

parse_schema_fields(text) == extract_zod_special_fields(text)

-----------------------------------------------------------------------------
(* parser.rs: delimiter matcher, comment stripper, collection block        *)
(* locator and collection definition extractor.  Offsets are byte offsets. *)

\* the least element of a non-empty set of positions
Least(S) == CHOOSE p \in S : \A q \in S : p <= q

\* the loop of find_matching_closing_brace from character index ci, taken
\* from one delimiter to the next
\* variant that answers with the character index past the delimiter
RECURSIVE BraceLoopCharIndex(_, _, _, _, _)
BraceLoopCharIndex(content, ci, brace_count, open_char, close_char) ==
    LET delimiters == {j \in ci..(Len(content) - 1) :
                          content[j + 1] \in {open_char, close_char}}
    IN  IF delimiters = {} THEN Err("Unclosed braces")
        ELSE LET j == Least(delimiters)
             IN  IF content[j + 1] = open_char
                 THEN BraceLoopCharIndex(content, j + 1, brace_count + 1,
                                         open_char, close_char)
                 ELSE IF brace_count - 1 = 0
                 THEN Ok(j + 1)
                 ELSE BraceLoopCharIndex(content, j + 1, brace_count - 1,
                                         open_char, close_char)

RECURSIVE BraceLoop(_, _, _, _, _)
BraceLoop(content, ci, brace_count, open_char, close_char) ==
    LET delimiters == {j \in ci..(Len(content) - 1) :
                          content[j + 1] \in {open_char, close_char}}
    IN  IF delimiters = {} THEN Err("Unclosed braces")
        ELSE LET j == Least(delimiters)
             IN  IF content[j + 1] = open_char
                 THEN BraceLoop(content, j + 1, brace_count + 1,
                                open_char, close_char)
                 ELSE IF brace_count - 1 = 0
                 THEN Ok(ByteOf(content, j) + 1)
                 ELSE BraceLoop(content, j + 1, brace_count - 1,
                                open_char, close_char)

\* `content[start_pos..]` panics off a character boundary
find_matching_closing_brace(content, start_pos, open_char, close_char) ==
    With(CharAtByte(content, start_pos), LAMBDA from :
        IF from < 0 THEN Panic
        ELSE BraceLoop(content, from, 0, open_char, close_char))

\* variant in which a backslash inside a string escapes nothing
RECURSIVE RemoveCommentsLoopNoEscape(_, _, _, _, _, _, _)
RemoveCommentsLoopNoEscape(content, i, output, in_string, string_char, in_block_comment, escape_next) ==
    IF i >= Len(content) THEN output
    ELSE IF escape_next
    THEN RemoveCommentsLoopNoEscape(content, i + 1,
             IF in_block_comment THEN output ELSE Append(output, content[i + 1]),
             in_string, string_char, in_block_comment, FALSE)
    ELSE IF in_string
    THEN LET marks == {j \in i..(Len(content) - 1) :
                          content[j + 1] \in {"\\", string_char}}
         IN  IF marks = {} THEN output \o SubSeq(content, i + 1, Len(content))
             ELSE LET j == Least(marks)
                  IN  RemoveCommentsLoopNoEscape(content, j + 1,
                          output \o SubSeq(content, i + 1, j + 1),
                          content[j + 1] = "\\", string_char, FALSE,
                          FALSE)
    ELSE IF in_block_comment
    THEN LET closers == {j \in i..(Len(content) - 2) :
                            content[j + 1] = "*" /\ content[j + 2] = "/"}
         IN  IF closers = {} THEN output
             ELSE RemoveCommentsLoopNoEscape(content, Least(closers) + 2, output,
                                     FALSE, string_char, FALSE, FALSE)
    ELSE LET marks == {j \in i..(Len(content) - 1) :
                          content[j + 1] \in {"\"", "'", "/"}}
         IN  IF marks = {} THEN output \o SubSeq(content, i + 1, Len(content))
             ELSE LET j == Least(marks)
                      ch == content[j + 1]
                      kept == output \o SubSeq(content, i + 1, j)
                      peek == IF j + 1 < Len(content) THEN content[j + 2] ELSE ""
                  IN  IF ch # "/"
                      THEN RemoveCommentsLoopNoEscape(content, j + 1, Append(kept, ch),
                                              TRUE, ch, FALSE, FALSE)
                      ELSE IF peek = "/"
                      THEN LET newlines == {k \in (j + 2)..(Len(content) - 1) :
                                               content[k + 1] = "\n"}
                           IN  IF newlines = {} THEN kept
                               ELSE RemoveCommentsLoopNoEscape(content,
                                        Least(newlines) + 1, Append(kept, "\n"),
                                        FALSE, string_char, FALSE, FALSE)
                      ELSE IF peek = "*"
                      THEN RemoveCommentsLoopNoEscape(content, j + 2, kept, FALSE,
                                              string_char, TRUE, FALSE)
                      ELSE RemoveCommentsLoopNoEscape(content, j + 1, Append(kept, ch),
                                              FALSE, string_char, FALSE, FALSE)

\* the loop of remove_comments from character index i, taken from one
\* character that changes its state to the next (output is `result`)
RECURSIVE RemoveCommentsLoop(_, _, _, _, _, _, _)
RemoveCommentsLoop(content, i, output, in_string, string_char, in_block_comment, escape_next) ==
    IF i >= Len(content) THEN output
    ELSE IF escape_next
    THEN RemoveCommentsLoop(content, i + 1,
             IF in_block_comment THEN output ELSE Append(output, content[i + 1]),
             in_string, string_char, in_block_comment, FALSE)
    ELSE IF in_string
    THEN LET marks == {j \in i..(Len(content) - 1) :
                          content[j + 1] \in {"\\", string_char}}
         IN  IF marks = {} THEN output \o SubSeq(content, i + 1, Len(content))
             ELSE LET j == Least(marks)
                  IN  RemoveCommentsLoop(content, j + 1,
                          output \o SubSeq(content, i + 1, j + 1),
                          content[j + 1] = "\\", string_char, FALSE,
                          content[j + 1] = "\\")
    ELSE IF in_block_comment
    THEN LET closers == {j \in i..(Len(content) - 2) :
                            content[j + 1] = "*" /\ content[j + 2] = "/"}
         IN  IF closers = {} THEN output
             ELSE RemoveCommentsLoop(content, Least(closers) + 2, output,
                                     FALSE, string_char, FALSE, FALSE)
    ELSE LET marks == {j \in i..(Len(content) - 1) :
                          content[j + 1] \in {"\"", "'", "/"}}
         IN  IF marks = {} THEN output \o SubSeq(content, i + 1, Len(content))
             ELSE LET j == Least(marks)
                      ch == content[j + 1]
                      kept == output \o SubSeq(content, i + 1, j)
                      peek == IF j + 1 < Len(content) THEN content[j + 2] ELSE ""
                  IN  IF ch # "/"
                      THEN RemoveCommentsLoop(content, j + 1, Append(kept, ch),
                                              TRUE, ch, FALSE, FALSE)
                      ELSE IF peek = "/"
                      THEN LET newlines == {k \in (j + 2)..(Len(content) - 1) :
                                               content[k + 1] = "\n"}
                           IN  IF newlines = {} THEN kept
                               ELSE RemoveCommentsLoop(content,
                                        Least(newlines) + 1, Append(kept, "\n"),
                                        FALSE, string_char, FALSE, FALSE)
                      ELSE IF peek = "*"
                      THEN RemoveCommentsLoop(content, j + 2, kept, FALSE,
                                              string_char, TRUE, FALSE)
                      ELSE RemoveCommentsLoop(content, j + 1, Append(kept, ch),
                                              FALSE, string_char, FALSE, FALSE)

remove_comments(content) ==
    RemoveCommentsLoop(content, 0, <<>>, FALSE, "\"", FALSE, FALSE)

KwExport == <<"e","x","p","o","r","t">>
KwConst == <<"c","o","n","s","t">>
KwCollections == <<"c","o","l","l","e","c","t","i","o","n","s">>
KwDefineCollection ==
    <<"d","e","f","i","n","e","C","o","l","l","e","c","t","i","o","n">>

\* export\s+const\s+collections\s*=\s*\{
export_collections_re ==
    Lit(KwExport) \o WsPlus \o Lit(KwConst) \o WsPlus \o Lit(KwCollections)
        \o WsStar \o Lit(<<"=">>) \o WsStar \o Lit(<<"{">>)

\* collections\s*:\s*\{
collections_re ==
    Lit(KwCollections) \o WsStar \o Lit(<<":">>) \o WsStar \o Lit(<<"{">>)

\* one attempt of extract_collections_block: the block from the brace that
\* ends the match to its closing brace, None when there is no match or the
\* brace is not closed
BlockAfter(content, start_match) ==
    IF ~start_match.ok THEN None
    ELSE With(ByteOf(content, start_match.end) - 1, LAMBDA start :
         With(find_matching_closing_brace(content, start, "{", "}"), LAMBDA end :
             IF end.tag = "Panic" THEN Panic
             ELSE IF end.tag = "Ok" THEN StrSlice(content, start, end.val)
             ELSE None))

\* variant that tries the legacy shape first
extract_collections_block_legacy_first(content) ==
    With(BlockAfter(content, ReFind(content, collections_re)),
         LAMBDA old_format :
             IF old_format.tag # "None" THEN old_format
             ELSE BlockAfter(content, ReFind(content, export_collections_re)))

extract_collections_block(content) ==
    With(BlockAfter(content, ReFind(content, export_collections_re)),
         LAMBDA new_format :
             IF new_format.tag # "None" THEN new_format
             ELSE BlockAfter(content, ReFind(content, collections_re)))

KwLoader == <<"l","o","a","d","e","r",":">>
KwFile == <<"f","i","l","e">>
KwZObject == <<"z",".","o","b","j","e","c","t">>

\* NAME\s*[=:]\s*defineCollection\s*\(\s*\{\s*loader:\s*file\s*\( ; the
\* optional prefix (?:(?:const|let|var)\s+)? of the unanchored pattern does
\* not change whether it matches
file_loader_re(collection_name) ==
    Lit(collection_name) \o WsStar \o One({"=", ":"}) \o WsStar
        \o Lit(KwDefineCollection) \o WsStar \o Lit(<<"(">>) \o WsStar
        \o Lit(<<"{">>) \o WsStar \o Lit(KwLoader) \o WsStar \o Lit(KwFile)
        \o WsStar \o Lit(<<"(">>)

is_file_based_collection(full_content, collection_name) ==
    ReFind(full_content, file_loader_re(collection_name)).ok

\* str::trim
Trim(s) ==
    LET inked == {i \in DOMAIN s : ~IsWhitespace(s[i])}
    IN  IF inked = {} THEN <<>>
        ELSE SubSeq(s, Least(inked), Greatest(inked))

\* z\.object\s*\(\s*\{
schema_start_re ==
    Lit(KwZObject) \o WsStar \o Lit(<<"(">>) \o WsStar \o Lit(<<"{">>)

extract_schema_from_collection_block(collection_block) ==
    With(ReFind(collection_block, schema_start_re), LAMBDA start_match :
        IF ~start_match.ok THEN None
        ELSE With(ByteOf(collection_block, start_match.end) - 1, LAMBDA start :
             With(find_matching_closing_brace(collection_block, start, "{", "}"),
                  LAMBDA end :
                 IF end.tag = "Panic" THEN Panic
                 ELSE IF end.tag = "Err" THEN None
                 ELSE With(StrSlice(collection_block, start + 1, end.val - 1),
                           LAMBDA inner :
                          IF inner.tag = "Panic" THEN Panic
                          ELSE parse_schema_fields(Trim(inner.val))))))

\* const\s+NAME\s*=\s*defineCollection\s*\(
const_re(collection_name) ==
    Lit(KwConst) \o WsPlus \o Lit(collection_name) \o WsStar \o Lit(<<"=">>)
        \o WsStar \o Lit(KwDefineCollection) \o WsStar \o Lit(<<"(">>)

\* NAME\s*:\s*defineCollection\s*\(
object_re(collection_name) ==
    Lit(collection_name) \o WsStar \o Lit(<<":">>) \o WsStar
        \o Lit(KwDefineCollection) \o WsStar \o Lit(<<"(">>)

extract_basic_schema(content, collection_name) ==
    With(ReFind(content, const_re(collection_name)), LAMBDA const_match :
    With(IF const_match.ok THEN const_match
         ELSE ReFind(content, object_re(collection_name)), LAMBDA start_match :
        IF ~start_match.ok THEN None
        ELSE With(ByteOf(content, start_match.end) - 1, LAMBDA start :
             With(find_matching_closing_brace(content, start, "(", ")"), LAMBDA end :
                 IF end.tag = "Panic" THEN Panic
                 ELSE IF end.tag = "Err" THEN None
                 ELSE With(StrSlice(content, ByteOf(content, start_match.start),
                                    end.val),
                           LAMBDA collection_block :
                          IF collection_block.tag = "Panic" THEN Panic
                          ELSE extract_schema_from_collection_block(
                                   collection_block.val))))))

\* Collection::new: name and directory path, no schema attached yet
Collection(name, path) ==
    [name |-> name, path |-> path, schema |-> <<>>, json_schema |-> <<>>,
     complete_schema |-> <<>>]

IdentStart == Lower \cup Upper \cup {"_"}
IdentRest == IdentStart \cup Digit
ReIdent == <<Cls(IdentStart, 1, FALSE), Cls(IdentRest, 0, TRUE)>>

RECURSIVE MoreNames(_)
MoreNames(k) ==
    IF k = 0 THEN <<>>
    ELSE WsStar \o Lit(<<",">>) \o WsStar \o ReIdent \o MoreNames(k - 1)

\* \{\s*([a-zA-Z_][a-zA-Z0-9_]*(?:\s*,\s*[a-zA-Z_][a-zA-Z0-9_]*)*)\s*\} with
\* the group repeated k times
export_names_re(k) ==
    Lit(<<"{">>) \o WsStar \o ReIdent \o MoreNames(k) \o WsStar \o Lit(<<"}">>)

\* Regex::captures of export_names_re: the leftmost match over every number
\* of repetitions the text has commas for, with capture group 1
ExportNamesCapture(collections_block) ==
    With([k \in 0..Cardinality({i \in DOMAIN collections_block :
                                   collections_block[i] = ","}) |->
             ReFind(collections_block, export_names_re(k))],
         LAMBDA matches :
             LET found == {k \in DOMAIN matches : matches[k].ok}
             IN  IF found = {} THEN None
                 ELSE LET k == CHOOSE a \in found : \A b \in found :
                                   matches[a].start <= matches[b].start
                      IN  Some(SubSeq(collections_block, matches[k].ends[2] + 1,
                                      matches[k].ends[4 + 5 * k])))

\* str::split(',')
RECURSIVE SplitCommas(_)
SplitCommas(s) ==
    LET commas == {i \in DOMAIN s : s[i] = ","}
    IN  IF commas = {} THEN <<s>>
        ELSE <<SubSeq(s, 1, Least(commas) - 1)>>
             \o SplitCommas(SubSeq(s, Least(commas) + 1, Len(s)))

\* (\w+)\s*:\s*defineCollection\s*\(
collection_re ==
    <<Cls(ReWord, 1, TRUE)>> \o WsStar \o Lit(<<":">>) \o WsStar
        \o Lit(KwDefineCollection) \o WsStar \o Lit(<<"(">>)

\* the body shared by the two loops of parse_collection_definitions: the
\* collection of one name, <<>> when it is skipped; schema_source is the
\* text its schema is looked up in
CollectionFor(collection_name, content_dir, existing_dirs, full_content, schema_source) ==
    IF is_file_based_collection(full_content, collection_name) THEN Some(<<>>)
    ELSE IF collection_name \notin existing_dirs THEN Some(<<>>)
    ELSE With(extract_basic_schema(schema_source, collection_name), LAMBDA schema :
             LET collection == Collection(collection_name,
                                          Append(content_dir, collection_name))
             IN  IF schema.tag = "Panic" THEN Panic
                 ELSE IF schema.tag = "Some"
                 THEN Some(<<[collection EXCEPT !.schema = <<schema.val>>]>>)
                 ELSE Some(<<collection>>))

RECURSIVE CollectionsLoop(_, _, _, _, _, _, _)
CollectionsLoop(names, i, found, content_dir, existing_dirs, full_content, schema_source) ==
    IF i > Len(names) THEN Some(found)
    ELSE With(CollectionFor(names[i], content_dir, existing_dirs, full_content,
                            schema_source),
              LAMBDA one :
                  IF one.tag = "Panic" THEN Panic
                  ELSE CollectionsLoop(names, i + 1, found \o one.val, content_dir,
                                       existing_dirs, full_content, schema_source))

\* existing_dirs: the names d for which content_dir.join(d) exists and is a
\* directory
parse_collection_definitions(collections_block, content_dir, existing_dirs, full_content) ==
    With(ExportNamesCapture(collections_block), LAMBDA cap :
    With(IF /\ cap.tag = "Some"
            /\ ~Contains(cap.val, KwDefineCollection)
            /\ ~Contains(cap.val, <<":">>)
         THEN With(SplitCommas(cap.val), LAMBDA names :
                  [i \in DOMAIN names |-> Trim(names[i])])
         ELSE <<>>, LAMBDA listed :
    With(CollectionsLoop(listed, 1, <<>>, content_dir, existing_dirs,
                         full_content, full_content), LAMBDA from_list :
    With(ReFindAll(collections_block, collection_re), LAMBDA caps :
        LET inline == [i \in DOMAIN caps |->
                          SubSeq(collections_block, caps[i].start + 1,
                                 caps[i].ends[1])]
        IN  IF from_list.tag = "Panic" THEN Panic
            ELSE With(CollectionsLoop(inline, 1, from_list.val, content_dir,
                                      existing_dirs, full_content,
                                      collections_block),
                      LAMBDA all :
                          IF all.tag = "Panic" THEN Panic ELSE Ok(all.val))))))

DefaultContentDir == <<"src", "content">>

\* the names d for which content_dir.join(d) is a directory of the file
\* system; a path is the sequence of its components below project_path
DirectoryNames(file_system, content_dir) ==
    { path[Len(path)] :
        path \in { q \in file_system :
                      /\ Len(q) = Len(content_dir) + 1
                      /\ SubSeq(q, 1, Len(content_dir)) = content_dir } }

\* variant that looks under src/content whatever the override
parse_collections_from_content_default_dir(content, content_directory_override, file_system) ==
    With(remove_comments(content), LAMBDA clean_content :
    With(extract_collections_block(clean_content), LAMBDA collections_block :
        IF collections_block.tag = "Panic" THEN Panic
        ELSE IF collections_block.tag = "None" THEN Ok(<<>>)
        ELSE parse_collection_definitions(collections_block.val,
                 DefaultContentDir,
                 DirectoryNames(file_system, DefaultContentDir), clean_content)))

parse_collections_from_content(content, content_directory_override, file_system) ==
    LET content_dir == IF content_directory_override # <<>>
                       THEN content_directory_override[1]
                       ELSE DefaultContentDir
    IN  With(remove_comments(content), LAMBDA clean_content :
        With(extract_collections_block(clean_content), LAMBDA collections_block :
            IF collections_block.tag = "Panic" THEN Panic
            ELSE IF collections_block.tag = "None" THEN Ok(<<>>)
            ELSE parse_collection_definitions(collections_block.val, content_dir,
                     DirectoryNames(file_system, content_dir), clean_content)))

-----------------------------------------------------------------------------
(* Schema bodies the parser is run on.  A shape describes a body with one  *)
(* helper call, the value of field `name`, nested in the object literals   *)
(* of the fields `parents` (outermost first):                              *)
(*    a: z.object({ b: z.object({ t: z.string(), f: z.array(image()) }) }) *)

ParentNames == {<<"a">>, <<"b">>}
OwnName == <<"f">>
RefTarget == <<"x">>

RECURSIVE SeqsUpTo(_, _)
SeqsUpTo(S, n) ==
    IF n = 0 THEN {<<>>}
    ELSE LET shorter == SeqsUpTo(S, n - 1)
         IN  shorter \cup {Append(s, x) : s \in {t \in shorter : Len(t) = n - 1},
                                          x \in S}

AsciiShapes ==
    [parents : SeqsUpTo(ParentNames, MaxDepth), name : {OwnName},
     kind : {"Image", "Reference"}, wrapped : BOOLEAN,
     sibling : {"none", "prim", "object"},
     style : {"compact", "spaced", "lines"}, trailing : BOOLEAN,
     wide : {0}, wide_at : {"name"}]

\* bodies with 1..MaxWide two-byte characters before the helper, as the
\* field's own name or inside a string literal of an earlier field
WideShapes ==
    [parents : SeqsUpTo({<<"a">>}, 1), name : {OwnName},
     kind : {"Image"}, wrapped : BOOLEAN, sibling : {"none"},
     style : {"compact"}, trailing : BOOLEAN,
     wide : 1..MaxWide, wide_at : {"name", "literal"}]

Shapes == AsciiShapes \cup WideShapes

ShapeName(sh) ==
    IF sh.wide > 0 /\ sh.wide_at = "name" THEN Repeat(Wide, sh.wide) ELSE sh.name

Sp(sh) == IF sh.style = "compact" THEN <<>> ELSE <<" ">>
Nl(sh) == IF sh.style = "lines" THEN <<"\n", " ", " ">> ELSE Sp(sh)

HelperText(sh) ==
    IF sh.kind = "Image" THEN KwImage \o <<"(", ")">>
    ELSE KwReference \o <<"(", "'">> \o RefTarget \o <<"'", ")">>

SiblingText(sh) ==
    CASE sh.sibling = "none" -> <<>>
      [] sh.sibling = "prim" ->
            <<"t", ":">> \o Sp(sh) \o KwStringCall \o <<",">> \o Nl(sh)
      [] sh.sibling = "object" ->
            <<"s", ":">> \o Sp(sh) \o KwObjectCall \o <<"{">> \o Sp(sh)
              \o <<"u", ":">> \o Sp(sh) \o KwStringCall \o Sp(sh)
              \o <<"}", ")", ",">> \o Nl(sh)

LiteralText(sh) ==
    IF sh.wide > 0 /\ sh.wide_at = "literal"
    THEN <<"t", ":", "z", ".", "l", "i", "t", "e", "r", "a", "l", "(", "'">>
            \o Repeat(Wide, sh.wide)
            \o <<"'", ")", ",">>
    ELSE <<>>

LeafText(sh) ==
    SiblingText(sh) \o LiteralText(sh) \o ShapeName(sh) \o <<":">> \o Sp(sh)
      \o (IF sh.wrapped THEN KwArrayCall ELSE <<>>) \o HelperText(sh)
      \o (IF sh.wrapped THEN <<")">> ELSE <<>>)
      \o (IF sh.trailing
          THEN <<",">> \o Sp(sh) \o <<"g", ":">> \o Sp(sh) \o KwStringCall
          ELSE <<>>)

\* `p: z.object({ ... })`; the "lines" style breaks the line inside the call
ObjectOpen(sh) ==
    IF sh.style = "lines"
    THEN <<"z", "\n", " ", ".", "o", "b", "j", "e", "c", "t", "(", "{", "\n", " ">>
    ELSE KwObjectCall \o <<"{">> \o Sp(sh)

RECURSIVE NestedText(_, _)
NestedText(sh, i) ==
    IF i > Len(sh.parents) THEN LeafText(sh)
    ELSE sh.parents[i] \o <<":">> \o Sp(sh) \o ObjectOpen(sh)
           \o NestedText(sh, i + 1) \o Nl(sh) \o <<"}", ")">>

RenderShape(sh) == NestedText(sh, 1)

\* the dotted path of the helper of a shape: one segment per enclosing field
ShapePath(sh) == JoinWith(sh.parents \o <<ShapeName(sh)>>, <<".">>)

-----------------------------------------------------------------------------
(* Specification of the heuristic parser on one schema body                *)

NoProbe == [helper |-> HelperMatch("Image", 0, <<>>), path |-> None,
            in_array |-> None]

IdleMerger ==
    /\ any_of = <<>>
    /\ type_info = None
    /\ json_schema = None
    /\ zod_schema = None
    /\ result = None

IdleConfig ==
    /\ config_text = <<>>
    /\ dirs = {}
    /\ collections = None

InitParse ==
    /\ pc = "start"
    /\ shape \in Shapes
    /\ schema_text = RenderShape(shape)
    /\ probe = NoProbe
    /\ zod_out = None
    /\ IdleMerger
    /\ IdleConfig

ExtractZodSpecialFields ==
    /\ pc = "start"
    /\ zod_out' = extract_zod_special_fields(schema_text)
    /\ pc' = "extracted"
    /\ UNCHANGED <<shape, schema_text, probe, any_of, type_info, json_schema,
                   zod_schema, result, config_text, dirs, collections>>

ResolveFieldPath ==
    /\ pc = "start"
    /\ \E i \in DOMAIN find_helper_calls(schema_text) :
          LET helper == find_helper_calls(schema_text)[i]
          IN  probe' = [helper |-> helper,
                        path |-> resolve_field_path(schema_text, helper.position),
                        in_array |-> None]
    /\ pc' = "resolved"
    /\ UNCHANGED <<shape, schema_text, zod_out, any_of, type_info, json_schema,
                   zod_schema, result, config_text, dirs, collections>>

IsInsideArray ==
    /\ pc = "start"
    /\ \E i \in DOMAIN find_helper_calls(schema_text) :
          LET helper == find_helper_calls(schema_text)[i]
          IN  probe' = [helper |-> helper, path |-> None,
                        in_array |-> is_inside_array(schema_text, helper.position)]
    /\ pc' = "checked"
    /\ UNCHANGED <<shape, schema_text, zod_out, any_of, type_info, json_schema,
                   zod_schema, result, config_text, dirs, collections>>

NextParse == ExtractZodSpecialFields \/ ResolveFieldPath \/ IsInsideArray

SpecParse == InitParse /\ [][NextParse]_vars

-----------------------------------------------------------------------------
(* Claims about the field path resolver and the heuristic serializer       *)

\* C4: for a helper call that is the value of field f nested inside the
\* object-literal values of p1 .. pk, resolve_field_path returns the dotted
\* path "p1.....pk.f": one segment per enclosing field, outermost first,
\* whatever the line wrapping, and closed sibling objects add no segment.
\* Stated here on the bodies without multi-byte characters.
C4_OneSegmentPerEnclosingField ==
    pc = "resolved" /\ shape.wide = 0 => probe.path = Ok(ShapePath(shape))

\* the helpers of a body whose field path resolves, in scan order
ResolvedHelpers(text) ==
    SelectSeq(find_helper_calls(text),
              LAMBDA h : resolve_field_path(text, h.position).tag = "Ok")

\* array-wrapped, as the claim defines it: the text between the nearest
\* colon preceding the helper and the helper contains `z.array(`
ArrayWrapped(text, helper) ==
    LET at == CharAtByte(text, helper.position)
        colons == {c \in 1..at : text[c] = ":"}
    IN  /\ colons # {}
        /\ LET colon == CHOOSE c \in colons : \A d \in colons : d <= c
           IN  Contains(SubSeq(text, colon, at), KwArrayCall)

\* the type the claim fixes for (helper kind, array-wrapped)
TypeOfField(f) ==
    [type |-> f.type, arrayType |-> f.arrayType,
     referencedCollection |-> f.referencedCollection,
     arrayReferenceCollection |-> f.arrayReferenceCollection]

TypeFixedBy(helper, wrapped) ==
    CASE helper.helper_type = "Image" /\ ~wrapped ->
            [type |-> "Image", arrayType |-> <<>>,
             referencedCollection |-> <<>>, arrayReferenceCollection |-> <<>>]
      [] helper.helper_type = "Reference" /\ ~wrapped ->
            [type |-> "Reference", arrayType |-> <<>>,
             referencedCollection |-> <<helper.collection_name>>,
             arrayReferenceCollection |-> <<>>]
      [] helper.helper_type = "Image" /\ wrapped ->
            [type |-> "Array", arrayType |-> <<"Image">>,
             referencedCollection |-> <<>>, arrayReferenceCollection |-> <<>>]
      [] helper.helper_type = "Reference" /\ wrapped ->
            [type |-> "Array", arrayType |-> <<"Reference">>,
             referencedCollection |-> <<>>,
             arrayReferenceCollection |-> <<helper.collection_name>>]

\* C5: every field emitted by the heuristic serializer has its type fixed by
\* the pair (helper kind, array-wrapped): Image, Reference with
\* referencedCollection, Array of Image, Array of Reference with
\* arrayReferenceCollection.
C5_TypeFixedByKindAndWrapping ==
    pc = "extracted" /\ zod_out.tag = "Some" =>
        \A i \in DOMAIN zod_out.val.fields[1] :
            LET helper == ResolvedHelpers(schema_text)[i]
            IN  TypeOfField(zod_out.val.fields[1][i])
                  = TypeFixedBy(helper, ArrayWrapped(schema_text, helper))

\* C9: every step of the pipeline completes and returns a value for every
\* input text, multi-byte characters before a helper call included: no index
\* and no slice is taken out of range or off a character boundary.
C9_NoStepPanics ==
    /\ zod_out.tag # "Panic"
    /\ probe.path.tag # "Panic"
    /\ probe.in_array.tag # "Panic"

-----------------------------------------------------------------------------
(* schema_merger.rs: the deserialized JSON Schema.  An Option is <<>>       *)
(* (None) or <<v>> (Some(v)); an IndexMap is the sequence of its entries    *)
(* [name, schema] in document order; a name is a sequence of characters.    *)

\* StringOrArray
TypeString(s) == <<[variant |-> "String", names |-> <<s>>]>>
TypeArray(ss) == <<[variant |-> "Array", names |-> ss]>>

\* JsonSchemaProperty with no keyword present
NoKeys ==
    [type_ |-> <<>>, format |-> <<>>, any_of |-> <<>>, enum_ |-> <<>>,
     const_ |-> <<>>, items |-> <<>>, properties |-> <<>>,
     additional_properties |-> <<>>, required |-> <<>>, description |-> <<>>,
     markdown_description |-> <<>>, default |-> <<>>, minimum |-> <<>>,
     maximum |-> <<>>, exclusive_minimum |-> <<>>, exclusive_maximum |-> <<>>,
     min_length |-> <<>>, max_length |-> <<>>, min_items |-> <<>>,
     max_items |-> <<>>, pattern |-> <<>>]

Typed(s) == [NoKeys EXCEPT !.type_ = TypeString(s)]
Entry(name, schema) == [name |-> name, schema |-> schema]

\* ItemsType and PropertyAdditionalProperties / CollectionAdditionalProperties
ItemsSingle(schema) == <<[variant |-> "Single", schemas |-> <<schema>>]>>
ItemsTuple(schemas) == <<[variant |-> "Tuple", schemas |-> schemas]>>
AdditionalBool(b) == <<[variant |-> "Boolean", bool |-> b, schemas |-> <<>>]>>
AdditionalSchema(s) == <<[variant |-> "Schema", bool |-> FALSE, schemas |-> <<s>>]>>

IsType(schema, s) ==
    /\ schema.type_ # <<>>
    /\ schema.type_[1].variant = "String"
    /\ schema.type_[1].names = <<s>>

\* IndexMap::contains_key / HashSet::contains on names
ContainsKey(entries, name) == \E i \in DOMAIN entries : entries[i].name = name
Listed(names, name) == \E i \in DOMAIN names : names[i] = name

\* FieldTypeInfo; no function of the interpreter sets a reference collection
FieldTypeInfo(field_type, sub_type, enum_values) ==
    [field_type |-> field_type, sub_type |-> sub_type,
     enum_values |-> enum_values, reference_collection |-> <<>>,
     array_reference_collection |-> <<>>]

NameCollection == <<"c","o","l","l","e","c","t","i","o","n">>
NameId == <<"i","d">>
NameSlug == <<"s","l","u","g">>

is_date_field(branches) ==
    \E i \in DOMAIN branches :
        /\ branches[i].format # <<>>
        /\ branches[i].format[1] \in {"date-time", "date", "unix-time"}

is_reference_field(branches) ==
    \E i \in DOMAIN branches :
        /\ IsType(branches[i], "object")
        /\ branches[i].properties # <<>>
        /\ ContainsKey(branches[i].properties[1], NameCollection)
        /\ \/ ContainsKey(branches[i].properties[1], NameId)
           \/ ContainsKey(branches[i].properties[1], NameSlug)

\* variant of the loop that does not leave strings with enum values to the
\* enum rule
RECURSIVE NullablePrimitiveLoopEnumBlind(_, _, _, _)
NullablePrimitiveLoopEnumBlind(branches, i, primitive_type, has_null) ==
    IF i > Len(branches)
    THEN IF has_null THEN primitive_type ELSE <<>>
    ELSE LET schema == branches[i]
         IN  IF schema.type_ = <<>> \/ schema.type_[1].variant # "String"
             THEN <<>>
             ELSE LET t == schema.type_[1].names[1]
                  IN  IF t = "null"
                      THEN NullablePrimitiveLoopEnumBlind(branches, i + 1,
                                                          primitive_type, TRUE)
                      ELSE IF t \in {"number", "integer", "boolean", "string"}
                      THEN NullablePrimitiveLoopEnumBlind(branches, i + 1,
                                                          <<t>>, has_null)
                      ELSE <<>>

\* the loop of extract_nullable_primitive_type, with its early returns
RECURSIVE NullablePrimitiveLoop(_, _, _, _)
NullablePrimitiveLoop(branches, i, primitive_type, has_null) ==
    IF i > Len(branches)
    THEN IF has_null THEN primitive_type ELSE <<>>
    ELSE LET schema == branches[i]
         IN  IF schema.type_ = <<>> \/ schema.type_[1].variant # "String"
             THEN <<>>
             ELSE LET t == schema.type_[1].names[1]
                  IN  IF t = "null"
                      THEN NullablePrimitiveLoop(branches, i + 1, primitive_type, TRUE)
                      ELSE IF t \in {"number", "integer", "boolean"}
                      THEN NullablePrimitiveLoop(branches, i + 1, <<t>>, has_null)
                      ELSE IF t = "string"
                      THEN IF schema.enum_ # <<>> THEN <<>>
                           ELSE NullablePrimitiveLoop(branches, i + 1, <<t>>, has_null)
                      ELSE <<>>

extract_nullable_primitive_type(branches) ==
    IF Len(branches) # 2 THEN <<>>
    ELSE NullablePrimitiveLoop(branches, 1, <<>>, FALSE)

\* the loop of extract_nullable_array_type: <<>> on an early return, else
\* [array_schema, has_null]
RECURSIVE NullableArrayLoop(_, _, _, _)
NullableArrayLoop(branches, i, array_schema, has_null) ==
    IF i > Len(branches)
    THEN <<[array_schema |-> array_schema, has_null |-> has_null]>>
    ELSE IF IsType(branches[i], "null")
    THEN NullableArrayLoop(branches, i + 1, array_schema, TRUE)
    ELSE IF IsType(branches[i], "array")
    THEN NullableArrayLoop(branches, i + 1, <<branches[i]>>, has_null)
    ELSE <<>>

\* the loop of extract_nullable_enum_type (it has no early return)
RECURSIVE NullableEnumLoop(_, _, _, _)
NullableEnumLoop(branches, i, enum_values, has_null) ==
    IF i > Len(branches)
    THEN [enum_values |-> enum_values, has_null |-> has_null]
    ELSE IF IsType(branches[i], "null")
    THEN NullableEnumLoop(branches, i + 1, enum_values, TRUE)
    ELSE IF IsType(branches[i], "string") /\ branches[i].enum_ # <<>>
    THEN NullableEnumLoop(branches, i + 1, branches[i].enum_, has_null)
    ELSE NullableEnumLoop(branches, i + 1, enum_values, has_null)

extract_nullable_enum_type(branches) ==
    IF Len(branches) # 2 THEN <<>>
    ELSE LET r == NullableEnumLoop(branches, 1, <<>>, FALSE)
         IN  IF r.has_null /\ r.enum_values # <<>>
             THEN <<FieldTypeInfo("enum", <<>>, r.enum_values)>>
             ELSE <<>>

\* variant that takes every additionalProperties keyword, `false` included,
\* for a dynamic record
handle_object_type_any_additional(schema) ==
    IF schema.additional_properties # <<>>
    THEN FieldTypeInfo("string", <<>>, <<>>)
    ELSE FieldTypeInfo("unknown", <<>>, <<>>)

handle_object_type(schema) ==
    IF /\ schema.additional_properties # <<>>
       /\ \/ schema.additional_properties[1].variant = "Schema"
          \/ schema.additional_properties[1].bool
    THEN FieldTypeInfo("string", <<>>, <<>>)
    ELSE FieldTypeInfo("unknown", <<>>, <<>>)

handle_primitive_type(type_) ==
    IF type_.variant = "String"
    THEN IF type_.names[1] \in {"string", "integer", "number", "boolean"}
         THEN FieldTypeInfo(type_.names[1], <<>>, <<>>)
         ELSE FieldTypeInfo("unknown", <<>>, <<>>)
    ELSE FieldTypeInfo("string", <<>>, <<>>)

\* determine_field_type, handle_anyof_type, extract_nullable_array_type and
\* handle_array_type call one another; each returns Ok on every path, so the
\* Result wrapper is left out
RECURSIVE determine_field_type(_)
RECURSIVE handle_anyof_type(_)
RECURSIVE extract_nullable_array_type(_)
RECURSIVE handle_array_type(_)

handle_array_type(schema) ==
    IF schema.items # <<>>
    THEN IF schema.items[1].variant = "Tuple"
         THEN FieldTypeInfo("string", <<>>, <<>>)
         ELSE LET item_type_info == determine_field_type(schema.items[1].schemas[1])
              IN  FieldTypeInfo("array", <<item_type_info.field_type>>, <<>>)
    ELSE FieldTypeInfo("array", <<"string">>, <<>>)

extract_nullable_array_type(branches) ==
    IF Len(branches) # 2 THEN <<>>
    ELSE LET r == NullableArrayLoop(branches, 1, <<>>, FALSE)
         IN  IF r # <<>> /\ r[1].has_null /\ r[1].array_schema # <<>>
             THEN <<handle_array_type(r[1].array_schema[1])>>
             ELSE <<>>

handle_anyof_type(branches) ==
    IF is_date_field(branches) THEN FieldTypeInfo("date", <<>>, <<>>)
    ELSE IF is_reference_field(branches) THEN FieldTypeInfo("reference", <<>>, <<>>)
    ELSE IF extract_nullable_primitive_type(branches) # <<>>
    THEN FieldTypeInfo(extract_nullable_primitive_type(branches)[1], <<>>, <<>>)
    ELSE IF extract_nullable_array_type(branches) # <<>>
    THEN extract_nullable_array_type(branches)[1]
    ELSE IF extract_nullable_enum_type(branches) # <<>>
    THEN extract_nullable_enum_type(branches)[1]
    ELSE FieldTypeInfo("string", <<>>, <<>>)

determine_field_type(schema) ==
    IF schema.any_of # <<>> THEN handle_anyof_type(schema.any_of[1])
    ELSE IF schema.enum_ # <<>> THEN FieldTypeInfo("enum", <<>>, schema.enum_)
    ELSE IF schema.const_ # <<>> THEN FieldTypeInfo("string", <<>>, <<>>)
    ELSE IF IsType(schema, "array") THEN handle_array_type(schema)
    ELSE IF IsType(schema, "object") THEN handle_object_type(schema)
    ELSE IF schema.type_ # <<>>
    THEN IF IsType(schema, "string") /\ schema.format = <<"email">>
         THEN FieldTypeInfo("email", <<>>, <<>>)
         ELSE IF IsType(schema, "string") /\ schema.format = <<"uri">>
         THEN FieldTypeInfo("url", <<>>, <<>>)
         ELSE handle_primitive_type(schema.type_[1])
    ELSE FieldTypeInfo("unknown", <<>>, <<>>)

UpperOf ==
    [ch \in Lower |->
        CASE ch = "a" -> "A" [] ch = "b" -> "B" [] ch = "c" -> "C"
          [] ch = "d" -> "D" [] ch = "e" -> "E" [] ch = "f" -> "F"
          [] ch = "g" -> "G" [] ch = "h" -> "H" [] ch = "i" -> "I"
          [] ch = "j" -> "J" [] ch = "k" -> "K" [] ch = "l" -> "L"
          [] ch = "m" -> "M" [] ch = "n" -> "N" [] ch = "o" -> "O"
          [] ch = "p" -> "P" [] ch = "q" -> "Q" [] ch = "r" -> "R"
          [] ch = "s" -> "S" [] ch = "t" -> "T" [] ch = "u" -> "U"
          [] ch = "v" -> "V" [] ch = "w" -> "W" [] ch = "x" -> "X"
          [] ch = "y" -> "Y" [] ch = "z" -> "Z"]

\* char::to_ascii_uppercase, char::is_lowercase, char::is_uppercase
ToAsciiUppercase(ch) == IF ch \in Lower THEN UpperOf[ch] ELSE ch
IsLowercase(ch) == ch \in Lower \cup {Wide}
IsUppercase(ch) == ch \in Upper

RECURSIVE TitleCaseLoop(_, _, _, _)
TitleCaseLoop(s, i, out, prev_was_lower) ==
    IF i >= Len(s) THEN out
    ELSE LET ch == s[i + 1]
         IN  IF i = 0
             THEN TitleCaseLoop(s, 1, Append(out, ToAsciiUppercase(ch)),
                                IsLowercase(ch))
             ELSE IF IsUppercase(ch) /\ prev_was_lower
             THEN TitleCaseLoop(s, i + 1, out \o <<" ", ch>>, FALSE)
             ELSE TitleCaseLoop(s, i + 1, Append(out, ch), IsLowercase(ch))

camel_case_to_title_case(s) == TitleCaseLoop(s, 0, <<>>, FALSE)

FieldConstraints(min, max, min_length, max_length, pattern, format) ==
    [min |-> min, max |-> max, min_length |-> min_length,
     max_length |-> max_length, pattern |-> pattern, format |-> format]

\* numbers are integers here; each later assignment overrides the earlier
\* variant that returns the constraints whether or not any is set
extract_constraints_always(field_schema, field_type) ==
    <<FieldConstraints(field_schema.minimum, field_schema.maximum,
                       field_schema.min_length, field_schema.max_length,
                       field_schema.pattern, field_schema.format)>>

extract_constraints(field_schema, field_type) ==
    LET min == IF field_schema.exclusive_minimum # <<>>
               THEN <<field_schema.exclusive_minimum[1] + 1>>
               ELSE field_schema.minimum
        max == IF field_schema.exclusive_maximum # <<>>
               THEN <<field_schema.exclusive_maximum[1] - 1>>
               ELSE field_schema.maximum
        min_length == IF field_type = "array" /\ field_schema.min_items # <<>>
                      THEN field_schema.min_items
                      ELSE field_schema.min_length
        max_length == IF field_type = "array" /\ field_schema.max_items # <<>>
                      THEN field_schema.max_items
                      ELSE field_schema.max_length
        format == IF /\ field_schema.format # <<>>
                     /\ field_schema.format[1]
                            \in {"email", "uri", "date-time", "date"}
                  THEN field_schema.format
                  ELSE <<>>
        constraints == FieldConstraints(min, max, min_length, max_length,
                                        field_schema.pattern, format)
    IN  IF \/ min # <<>> \/ max # <<>> \/ min_length # <<>>
           \/ max_length # <<>> \/ field_schema.pattern # <<>> \/ format # <<>>
        THEN <<constraints>>
        ELSE <<>>

\* Option<Vec<String>> collected into a HashSet, None giving the empty set
RequiredSet(required) == IF required = <<>> THEN <<>> ELSE required[1]

\* variant that keeps a listed property required whatever its default
RequiredFlagIgnoringDefault(is_required, field_schema) == is_required

\* `required: is_required && field_schema.default.is_none()`
RequiredFlag(is_required, field_schema) ==
    is_required /\ field_schema.default = <<>>

\* parse_field and the loop over the properties of a nested object; the
\* Result is Ok on every path (determine_field_type never fails)
RECURSIVE parse_field(_, _, _, _)
RECURSIVE NestedFieldsLoop(_, _, _, _, _)

NestedFieldsLoop(properties, i, nested_required, full_path, nested_fields) ==
    IF i > Len(properties) THEN nested_fields
    ELSE LET is_nested_required == Listed(nested_required, properties[i].name)
             parsed == parse_field(properties[i].name, properties[i].schema,
                                   is_nested_required, full_path)
         IN  NestedFieldsLoop(properties, i + 1, nested_required, full_path,
                              nested_fields \o parsed)

parse_field(field_name, field_schema, is_required, parent_path) ==
    LET full_path == IF parent_path = <<>> THEN field_name
                     ELSE parent_path \o <<".">> \o field_name
        label == camel_case_to_title_case(field_name)
        field_type_info == determine_field_type(field_schema)
    IN  IF /\ field_type_info.field_type = "unknown"
           /\ IsType(field_schema, "object")
           /\ field_schema.properties # <<>>
        THEN NestedFieldsLoop(field_schema.properties[1], 1,
                              RequiredSet(field_schema.required), full_path, <<>>)
        ELSE << [name |-> full_path,
                 label |-> label,
                 field_type |-> field_type_info.field_type,
                 sub_type |-> field_type_info.sub_type,
                 required |-> RequiredFlag(is_required, field_schema),
                 constraints |-> extract_constraints(field_schema,
                                                     field_type_info.field_type),
                 description |-> IF field_schema.description # <<>>
                                 THEN field_schema.description
                                 ELSE field_schema.markdown_description,
                 default |-> field_schema.default,
                 enum_values |-> field_type_info.enum_values,
                 reference_collection |-> field_type_info.reference_collection,
                 array_reference_collection |->
                     field_type_info.array_reference_collection,
                 is_nested |-> IF parent_path # <<>> THEN <<TRUE>> ELSE <<>>,
                 parent_path |-> IF parent_path # <<>> THEN <<parent_path>>
                                 ELSE <<>>] >>

NameSchemaKey == <<"$","s","c","h","e","m","a">>

\* variant that puts the fields of each property before those of the
\* properties already read
RECURSIVE EntryFieldsLoopNewestFirst(_, _, _, _)
EntryFieldsLoopNewestFirst(properties, i, required_set, fields) ==
    IF i > Len(properties) THEN fields
    ELSE IF properties[i].name = NameSchemaKey
    THEN EntryFieldsLoopNewestFirst(properties, i + 1, required_set, fields)
    ELSE LET is_required == Listed(required_set, properties[i].name)
             parsed_fields == parse_field(properties[i].name,
                                          properties[i].schema, is_required, <<>>)
         IN  EntryFieldsLoopNewestFirst(properties, i + 1, required_set,
                                        parsed_fields \o fields)

RECURSIVE EntryFieldsLoop(_, _, _, _)
EntryFieldsLoop(properties, i, required_set, fields) ==
    IF i > Len(properties) THEN fields
    ELSE IF properties[i].name = NameSchemaKey
    THEN EntryFieldsLoop(properties, i + 1, required_set, fields)
    ELSE LET is_required == Listed(required_set, properties[i].name)
             parsed_fields == parse_field(properties[i].name,
                                          properties[i].schema, is_required, <<>>)
         IN  EntryFieldsLoop(properties, i + 1, required_set,
                             fields \o parsed_fields)

SchemaDefinition(collection_name, fields) ==
    [collection_name |-> collection_name, fields |-> fields]

\* variant that answers a definition without properties with an empty
\* definition
parse_entry_schema_empty_ok(collection_name, entry_schema) ==
    IF entry_schema.properties = <<>>
    THEN Ok(SchemaDefinition(collection_name, <<>>))
    ELSE Ok(SchemaDefinition(collection_name,
                             EntryFieldsLoop(entry_schema.properties[1], 1,
                                             RequiredSet(entry_schema.required),
                                             <<>>)))

parse_entry_schema(collection_name, entry_schema) ==
    IF entry_schema.properties = <<>> THEN Err("No properties found")
    ELSE Ok(SchemaDefinition(collection_name,
                             EntryFieldsLoop(entry_schema.properties[1], 1,
                                             RequiredSet(entry_schema.required),
                                             <<>>)))

\* JsonSchemaDefinition as written in the document: `type` may be missing
JsonSchemaDefinition(type_, properties, required, additional_properties) ==
    [type_ |-> type_, properties |-> properties, required |-> required,
     additional_properties |-> additional_properties]

\* the text of a JSON Schema document: well_formed tells whether it is JSON
\* at all; `$ref` and `definitions` may be missing
JsonDocument(well_formed, ref_, definitions) ==
    [well_formed |-> well_formed, ref_ |-> ref_, definitions |-> definitions]

\* serde: JsonSchemaDefinition needs `type`; an additionalProperties object
\* must itself deserialize as a JsonSchemaDefinition (untagged enum)
RECURSIVE DefinitionDeserializes(_)
DefinitionDeserializes(def) ==
    /\ def.type_ # <<>>
    /\ \/ def.additional_properties = <<>>
       \/ def.additional_properties[1].variant = "Boolean"
       \/ DefinitionDeserializes(def.additional_properties[1].schemas[1])

\* serde_json::from_str::<AstroJsonSchema>
FromStrAstroJsonSchema(json) ==
    /\ json.well_formed
    /\ json.ref_ # <<>>
    /\ json.definitions # <<>>
    /\ \A i \in DOMAIN json.definitions[1] :
          DefinitionDeserializes(json.definitions[1][i].schema)

\* str::replace: every non-overlapping occurrence, left to right
RECURSIVE StrReplace(_, _, _)
StrReplace(s, from, to) ==
    IF Len(s) < Len(from) THEN s
    ELSE IF SubSeq(s, 1, Len(from)) = from
    THEN to \o StrReplace(SubSeq(s, Len(from) + 1, Len(s)), from, to)
    ELSE <<Head(s)>> \o StrReplace(Tail(s), from, to)

DefinitionsPrefix == <<"#","/","d","e","f","i","n","i","t","i","o","n","s","/">>

\* IndexMap::get
MapGet(entries, name) ==
    IF ContainsKey(entries, name)
    THEN <<(CHOOSE e \in {entries[i] : i \in DOMAIN entries} : e.name = name).schema>>
    ELSE <<>>

parse_json_schema(collection_name, json) ==
    IF ~FromStrAstroJsonSchema(json) THEN Err("Failed to parse JSON")
    ELSE LET collection_name_from_ref ==
                 StrReplace(json.ref_[1], DefinitionsPrefix, <<>>)
             collection_def == MapGet(json.definitions[1], collection_name_from_ref)
         IN  IF collection_def = <<>>
             THEN Err("Collection definition not found")
             ELSE IF /\ collection_def[1].additional_properties # <<>>
                     /\ collection_def[1].additional_properties[1].variant = "Schema"
             THEN parse_entry_schema(collection_name,
                      collection_def[1].additional_properties[1].schemas[1])
             ELSE parse_entry_schema(collection_name, collection_def[1])

-----------------------------------------------------------------------------
(* schema_merger.rs: the heuristic schema (the JSON text the heuristic     *)
(* serializer of parser.rs wrote) and the merge                            *)

\* IndexMap::insert: a present key keeps its place and takes the new value
MapInsert(entries, name, value) ==
    IF ContainsKey(entries, name)
    THEN [i \in DOMAIN entries |->
             IF entries[i].name = name THEN Entry(name, value) ELSE entries[i]]
    ELSE Append(entries, Entry(name, value))

RECURSIVE EnhancementsLoop(_, _, _, _)
EnhancementsLoop(fields, i, reference_map, image_fields) ==
    IF i > Len(fields)
    THEN [reference_map |-> reference_map, image_fields |-> image_fields]
    ELSE LET field == fields[i]
             references ==
                 IF field.referencedCollection # <<>>
                 THEN MapInsert(reference_map, field.name,
                                field.referencedCollection[1])
                 ELSE IF field.arrayReferenceCollection # <<>>
                 THEN MapInsert(reference_map, field.name,
                                field.arrayReferenceCollection[1])
                 ELSE reference_map
             images ==
                 IF \/ field.type = "Image"
                    \/ field.type = "Array" /\ field.arrayType = <<"Image">>
                 THEN image_fields \cup {field.name}
                 ELSE image_fields
         IN  EnhancementsLoop(fields, i + 1, references, images)

\* its local ZodSchema needs `fields` only
extract_zod_enhancements(zod) ==
    IF ~zod.well_formed \/ zod.fields = <<>>
    THEN Err("Failed to parse Zod JSON")
    ELSE Ok(EnhancementsLoop(zod.fields[1], 1, <<>>, {}))

\* variant that sets the single-reference target on every matched field
ApplyReferenceWhateverType(field, reference_map) ==
    IF MapGet(reference_map, field.name) # <<>>
    THEN [field EXCEPT
             !.reference_collection = MapGet(reference_map, field.name)]
    ELSE field

\* variant that gives every matched array its target, whatever its sub-type
ApplyReferenceAnyArray(field, reference_map) ==
    LET collection_name == MapGet(reference_map, field.name)
    IN  IF collection_name = <<>> THEN field
        ELSE IF field.field_type = "reference"
        THEN [field EXCEPT !.reference_collection = collection_name]
        ELSE IF field.field_type = "array"
        THEN [field EXCEPT !.array_reference_collection = collection_name]
        ELSE field

\* `if let Some(collection_name) = reference_map.get(&field.name) { .. }`
ApplyReference(field, reference_map) ==
    LET collection_name == MapGet(reference_map, field.name)
    IN  IF collection_name = <<>> THEN field
        ELSE IF field.field_type = "reference"
        THEN [field EXCEPT !.reference_collection = collection_name]
        ELSE IF field.field_type = "array" /\ field.sub_type = <<"reference">>
        THEN [field EXCEPT !.array_reference_collection = collection_name]
        ELSE field

\* variant that upgrades every matched field, whatever its backbone type
ApplyImageWhateverType(field, image_fields) ==
    IF field.name \in image_fields
    THEN IF field.field_type = "array"
         THEN [field EXCEPT !.sub_type = <<"image">>]
         ELSE [field EXCEPT !.field_type = "image"]
    ELSE field

\* `if image_fields.contains(&field.name) { .. }`
ApplyImage(field, image_fields) ==
    IF field.name \notin image_fields THEN field
    ELSE IF field.field_type = "string"
    THEN [field EXCEPT !.field_type = "image"]
    ELSE IF field.field_type = "array" /\ field.sub_type = <<"string">>
    THEN [field EXCEPT !.sub_type = <<"image">>]
    ELSE field

\* variant that keeps only the fields the heuristic schema names
enhance_schema_from_zod_matched_only(schema, zod) ==
    LET enhancements == extract_zod_enhancements(zod)
        Matched(field) ==
            \/ MapGet(enhancements.val.reference_map, field.name) # <<>>
            \/ field.name \in enhancements.val.image_fields
    IN  IF enhancements.tag = "Err" THEN enhancements
        ELSE Ok([schema EXCEPT !.fields =
                   SelectSeq([i \in DOMAIN schema.fields |->
                                 ApplyImage(ApplyReference(schema.fields[i],
                                                enhancements.val.reference_map),
                                            enhancements.val.image_fields)],
                             Matched)])

\* Ok carries the schema as the call leaves it; on Err it is left untouched
enhance_schema_from_zod(schema, zod) ==
    LET enhancements == extract_zod_enhancements(zod)
    IN  IF enhancements.tag = "Err" THEN enhancements
        ELSE Ok([schema EXCEPT !.fields =
                   [i \in DOMAIN schema.fields |->
                       ApplyImage(ApplyReference(schema.fields[i],
                                                 enhancements.val.reference_map),
                                  enhancements.val.image_fields)]])

zod_type_to_field_type(zod_type) ==
    CASE zod_type = "String" -> "string"
      [] zod_type = "Number" -> "number"
      [] zod_type = "Boolean" -> "boolean"
      [] zod_type = "Date" -> "date"
      [] zod_type = "Array" -> "array"
      [] zod_type = "Enum" -> "enum"
      [] zod_type = "Reference" -> "reference"
      [] zod_type = "Image" -> "image"
      [] OTHER -> "unknown"

\* a serde_json object is the sequence of its [key, kind, val] members
ObjGet(obj, key, kind) ==
    LET at == {i \in DOMAIN obj : obj[i].key = key /\ obj[i].kind = kind}
    IN  IF at = {} THEN <<>> ELSE <<obj[Least(at)].val>>

parse_zod_constraints(obj) ==
    LET format == IF ObjGet(obj, "email", "bool") = <<TRUE>> THEN <<"email">>
                  ELSE IF ObjGet(obj, "url", "bool") = <<TRUE>> THEN <<"uri">>
                  ELSE <<>>
        constraints ==
            FieldConstraints(ObjGet(obj, "min", "number"),
                             ObjGet(obj, "max", "number"),
                             ObjGet(obj, "minLength", "number"),
                             ObjGet(obj, "maxLength", "number"),
                             ObjGet(obj, "regex", "string"), format)
    IN  IF \/ constraints.min # <<>> \/ constraints.max # <<>>
           \/ constraints.min_length # <<>> \/ constraints.max_length # <<>>
           \/ constraints.pattern # <<>> \/ constraints.format # <<>>
        THEN <<constraints>>
        ELSE <<>>

\* variant that takes the optional flag for the required flag
parse_zod_schema_required_if_optional(collection_name, zod) ==
    IF ~zod.well_formed \/ zod.type = <<>> \/ zod.fields = <<>>
    THEN Err("Failed to parse Zod JSON")
    ELSE Ok(SchemaDefinition(collection_name,
            [i \in DOMAIN zod.fields[1] |->
                LET f == zod.fields[1][i]
                IN  [name |-> f.name,
                     label |-> camel_case_to_title_case(f.name),
                     field_type |-> zod_type_to_field_type(f.type),
                     sub_type |-> IF f.arrayType = <<>> THEN <<>>
                                  ELSE <<zod_type_to_field_type(f.arrayType[1])>>,
                     required |-> f.optional,
                     constraints |-> IF f.constraints = <<>> THEN <<>>
                                     ELSE parse_zod_constraints(f.constraints[1]),
                     description |-> <<>>,
                     default |-> f.default,
                     enum_values |-> f.options,
                     reference_collection |-> f.referencedCollection,
                     array_reference_collection |-> f.arrayReferenceCollection,
                     is_nested |-> <<>>,
                     parent_path |-> <<>>]]))

\* its local ZodSchema needs `type` and `fields`
parse_zod_schema(collection_name, zod) ==
    IF ~zod.well_formed \/ zod.type = <<>> \/ zod.fields = <<>>
    THEN Err("Failed to parse Zod JSON")
    ELSE Ok(SchemaDefinition(collection_name,
            [i \in DOMAIN zod.fields[1] |->
                LET f == zod.fields[1][i]
                IN  [name |-> f.name,
                     label |-> camel_case_to_title_case(f.name),
                     field_type |-> zod_type_to_field_type(f.type),
                     sub_type |-> IF f.arrayType = <<>> THEN <<>>
                                  ELSE <<zod_type_to_field_type(f.arrayType[1])>>,
                     required |-> ~f.optional,
                     constraints |-> IF f.constraints = <<>> THEN <<>>
                                     ELSE parse_zod_constraints(f.constraints[1]),
                     description |-> <<>>,
                     default |-> f.default,
                     enum_values |-> f.options,
                     reference_collection |-> f.referencedCollection,
                     array_reference_collection |-> f.arrayReferenceCollection,
                     is_nested |-> <<>>,
                     parent_path |-> <<>>]]))

\* serde_json::to_string of a SchemaDefinition: the members in declaration
\* order under their camelCase keys; a None of a member marked
\* skip_serializing_if = "Option::is_none" is left out
Member(key, val) == [key |-> key, val |-> val]
OptionalMember(key, option) ==
    IF option = <<>> THEN <<>> ELSE <<Member(key, option[1])>>

SerializeConstraints(c) ==
    OptionalMember("min", c.min) \o OptionalMember("max", c.max)
    \o OptionalMember("minLength", c.min_length)
    \o OptionalMember("maxLength", c.max_length)
    \o OptionalMember("pattern", c.pattern)
    \o OptionalMember("format", c.format)

SerializeField(f) ==
    <<Member("name", f.name), Member("label", f.label),
      Member("fieldType", f.field_type)>>
    \o OptionalMember("subType", f.sub_type)
    \o <<Member("required", f.required)>>
    \o (IF f.constraints = <<>> THEN <<>>
        ELSE <<Member("constraints", SerializeConstraints(f.constraints[1]))>>)
    \o OptionalMember("description", f.description)
    \o OptionalMember("default", f.default)
    \o OptionalMember("enumValues", f.enum_values)
    \o OptionalMember("referenceCollection", f.reference_collection)
    \o OptionalMember("arrayReferenceCollection", f.array_reference_collection)
    \o OptionalMember("isNested", f.is_nested)
    \o OptionalMember("parentPath", f.parent_path)

SerializeDefinition(d) ==
    <<Member("collectionName", d.collection_name),
      Member("fields", [i \in DOMAIN d.fields |-> SerializeField(d.fields[i])])>>

\* variant that prefers the heuristic schema whenever it is present
create_complete_schema_zod_first(collection_name, json, zod) ==
    IF zod # <<>> THEN parse_zod_schema(collection_name, zod[1])
    ELSE IF json # <<>> THEN parse_json_schema(collection_name, json[1])
    ELSE Err("No schema available")

create_complete_schema(collection_name, json, zod) ==
    LET parsed == IF json = <<>> THEN Err("absent")
                  ELSE parse_json_schema(collection_name, json[1])
    IN  IF json # <<>> /\ parsed.tag = "Ok"
        THEN IF zod # <<>> /\ enhance_schema_from_zod(parsed.val, zod[1]).tag = "Ok"
             THEN enhance_schema_from_zod(parsed.val, zod[1])
             ELSE parsed
        ELSE IF zod # <<>> THEN parse_zod_schema(collection_name, zod[1])
        ELSE Err("No schema available")

-----------------------------------------------------------------------------
(* Specification of handle_anyof_type on one branch list                   *)

MaxBranches == 3

EnumValues == <<"draft", "live">>

\* {"type":"object","properties":{"id":..,"collection":..}}: a reference
ReferenceObject ==
    [Typed("object") EXCEPT
        !.properties = <<<<Entry(NameId, Typed("string")),
                           Entry(NameCollection, Typed("string"))>>>>]

Branches ==
    { Typed("null"), Typed("number"), Typed("integer"), Typed("boolean"),
      Typed("string"),
      [Typed("string") EXCEPT !.enum_ = EnumValues],
      [Typed("string") EXCEPT !.format = <<"date-time">>],
      [Typed("array") EXCEPT !.items = ItemsSingle(Typed("number"))],
      Typed("array"),
      ReferenceObject,
      [Typed("object") EXCEPT
          !.properties = <<<<Entry(NameId, Typed("string"))>>>>],
      [NoKeys EXCEPT !.type_ = TypeArray(<<"string", "null">>)],
      NoKeys }

IdleParse ==
    /\ shape = <<>>
    /\ schema_text = <<>>
    /\ probe = NoProbe
    /\ zod_out = None

InitAnyOf ==
    /\ pc = "start"
    /\ any_of \in SeqsUpTo(Branches, MaxBranches)
    /\ type_info = None
    /\ json_schema = None
    /\ zod_schema = None
    /\ result = None
    /\ IdleParse
    /\ IdleConfig

HandleAnyOfType ==
    /\ pc = "start"
    /\ type_info' = handle_anyof_type(any_of)
    /\ pc' = "classified"
    /\ UNCHANGED <<shape, schema_text, probe, zod_out, any_of, json_schema,
                   zod_schema, result, config_text, dirs, collections>>

NextAnyOf == HandleAnyOfType

SpecAnyOf == InitAnyOf /\ [][NextAnyOf]_vars

\* the rules of the claim, on a branch
DateLike(b) ==
    b.format # <<>> /\ b.format[1] \in {"date-time", "date", "unix-time"}
ReferenceLike(b) ==
    /\ IsType(b, "object")
    /\ b.properties # <<>>
    /\ ContainsKey(b.properties[1], NameCollection)
    /\ \/ ContainsKey(b.properties[1], NameId)
       \/ ContainsKey(b.properties[1], NameSlug)
BarePrimitive(b) ==
    \/ IsType(b, "number") \/ IsType(b, "integer") \/ IsType(b, "boolean")
    \/ IsType(b, "string") /\ b.enum_ = <<>>
StringEnum(b) == IsType(b, "string") /\ b.enum_ # <<>>

\* the branch list is a null and one other branch, in either order
NullAnd(branches, other) ==
    /\ Len(branches) = 2
    /\ \E i, j \in 1..2 :
          i # j /\ IsType(branches[i], "null") /\ other = branches[j]

\* the classification the rules (a)..(f) give, first rule first
RuleClassification(branches) ==
    IF \E i \in DOMAIN branches : DateLike(branches[i])
    THEN FieldTypeInfo("date", <<>>, <<>>)
    ELSE IF \E i \in DOMAIN branches : ReferenceLike(branches[i])
    THEN FieldTypeInfo("reference", <<>>, <<>>)
    ELSE IF \E b \in Branches : NullAnd(branches, b) /\ BarePrimitive(b)
    THEN LET b == CHOOSE c \in Branches : NullAnd(branches, c) /\ BarePrimitive(c)
         IN  FieldTypeInfo(b.type_[1].names[1], <<>>, <<>>)
    ELSE IF \E b \in Branches : NullAnd(branches, b) /\ IsType(b, "array")
    THEN LET b == CHOOSE c \in Branches : NullAnd(branches, c) /\ IsType(c, "array")
         IN  handle_array_type(b)
    ELSE IF \E b \in Branches : NullAnd(branches, b) /\ StringEnum(b)
    THEN LET b == CHOOSE c \in Branches : NullAnd(branches, c) /\ StringEnum(c)
         IN  FieldTypeInfo("enum", <<>>, b.enum_)
    ELSE FieldTypeInfo("string", <<>>, <<>>)

Permuted(branches, p) == [i \in DOMAIN branches |-> branches[p[i]]]

\* C6: handle_anyof_type returns the classification of the first rule that
\* applies in the order (a) date, (b) reference, (c) nullable primitive,
\* (d) nullable array, (e) nullable enum, (f) string, and the result does
\* not depend on the order of the branches.
C6_AnyOfRulePriority ==
    pc = "classified" =>
        /\ type_info = RuleClassification(any_of)
        /\ \A p \in Permutations(DOMAIN any_of) :
              handle_anyof_type(Permuted(any_of, p)) = type_info

\* a nullable number, null last, was classified number (not string)
C6_Witness ==
    /\ pc = "classified"
    /\ any_of = <<Typed("number"), Typed("null")>>
    /\ type_info.field_type = "number"

-----------------------------------------------------------------------------
(* Specification of parse_json_schema on one JSON Schema document: a chain *)
(* of nested object properties, each with a sibling leaf                   *)

MaxNest == 2

CollectionName == <<"b","l","o","g">>
FieldNames == << <<"m","e","t","a">>, <<"a","u","t","h","o","r">>,
                 <<"n","a","m","e">> >>
SiblingName == <<"t","i","t","l","e">>
LevelName(k) == FieldNames[((k - 1) % Len(FieldNames)) + 1]

\* depth: number of nested objects above the leaf; listed: the levels whose
\* property is listed in the `required` of the object that contains it;
\* at: the object that carries the additionalProperties and keyword choice
JsonShapes ==
    { sh \in [depth : 0..MaxNest, listed : SUBSET (1..(MaxNest + 1)),
              has_default : BOOLEAN, sibling_listed : BOOLEAN,
              additional : {"absent", "false", "true", "schema"},
              keyword : {"none", "enum", "const", "anyOf"},
              at : 0..MaxNest, file_based : BOOLEAN] :
        /\ sh.listed \subseteq 1..(sh.depth + 1)
        /\ IF sh.depth = 0
           THEN sh.at = 0 /\ sh.additional = "absent" /\ sh.keyword = "none"
           ELSE sh.at \in 1..sh.depth }

RequiredNames(sh, k) ==
    <<(IF k \in sh.listed THEN <<LevelName(k)>> ELSE <<>>)
      \o (IF sh.sibling_listed THEN <<SiblingName>> ELSE <<>>)>>

AdditionalOf(sh, k) ==
    IF k # sh.at THEN AdditionalBool(FALSE)
    ELSE CASE sh.additional = "absent" -> <<>>
           [] sh.additional = "false" -> AdditionalBool(FALSE)
           [] sh.additional = "true" -> AdditionalBool(TRUE)
           [] sh.additional = "schema" -> AdditionalSchema(Typed("string"))

WithKeyword(sh, k, schema) ==
    IF k # sh.at THEN schema
    ELSE CASE sh.keyword = "none" -> schema
           [] sh.keyword = "enum" -> [schema EXCEPT !.enum_ = EnumValues]
           [] sh.keyword = "const" -> [schema EXCEPT !.const_ = <<"x">>]
           [] sh.keyword = "anyOf" ->
                [schema EXCEPT !.any_of = <<<<Typed("string"), Typed("null")>>>>]

\* the property of level k
RECURSIVE RenderProperty(_, _)
RenderProperty(sh, k) ==
    IF k = sh.depth + 1
    THEN [Typed("string") EXCEPT
             !.default = IF sh.has_default THEN <<"x">> ELSE <<>>]
    ELSE WithKeyword(sh, k,
             [Typed("object") EXCEPT
                 !.properties = <<<<Entry(LevelName(k + 1), RenderProperty(sh, k + 1)),
                                    Entry(SiblingName, Typed("number"))>>>>,
                 !.required = RequiredNames(sh, k + 1),
                 !.additional_properties = AdditionalOf(sh, k)])

RenderEntrySchema(sh) ==
    JsonSchemaDefinition(<<"object">>,
        <<<<Entry(NameSchemaKey, Typed("string")),
            Entry(LevelName(1), RenderProperty(sh, 1)),
            Entry(SiblingName, Typed("number"))>>>>,
        RequiredNames(sh, 1), AdditionalBool(FALSE))

RenderDocument(sh) ==
    JsonDocument(TRUE, <<DefinitionsPrefix \o CollectionName>>,
        <<<<Entry(CollectionName,
                  IF sh.file_based
                  THEN JsonSchemaDefinition(<<"object">>, <<>>, <<>>,
                                            AdditionalSchema(RenderEntrySchema(sh)))
                  ELSE RenderEntrySchema(sh))>>>>)

InitJson ==
    /\ pc = "start"
    /\ shape \in JsonShapes
    /\ json_schema = <<RenderDocument(shape)>>
    /\ zod_schema = <<>>
    /\ result = None
    /\ any_of = <<>>
    /\ type_info = None
    /\ schema_text = <<>>
    /\ probe = NoProbe
    /\ zod_out = None
    /\ IdleConfig

ParseJsonSchema ==
    /\ pc = "start"
    /\ result' = parse_json_schema(CollectionName, json_schema[1])
    /\ pc' = "parsed"
    /\ UNCHANGED <<shape, schema_text, probe, zod_out, any_of, type_info,
                   json_schema, zod_schema, config_text, dirs, collections>>

NextJson == ParseJsonSchema

SpecJson == InitJson /\ [][NextJson]_vars

-----------------------------------------------------------------------------
(* Claims about the JSON-Schema interpreter                                *)

\* the entry schema of the document: the definition, or its
\* additionalProperties schema for a file-based collection
EntrySchemaOf(doc) ==
    LET def == doc.definitions[1][1].schema
    IN  IF /\ def.additional_properties # <<>>
           /\ def.additional_properties[1].variant = "Schema"
        THEN def.additional_properties[1].schemas[1]
        ELSE def

EntryProperties(doc) ==
    SelectSeq(EntrySchemaOf(doc).properties[1],
              LAMBDA e : e.name # NameSchemaKey)

AdditionalAbsentOrFalse(schema) ==
    \/ schema.additional_properties = <<>>
    \/ /\ schema.additional_properties[1].variant = "Boolean"
       /\ ~schema.additional_properties[1].bool
AdditionalTrueOrSchema(schema) ==
    /\ schema.additional_properties # <<>>
    /\ \/ schema.additional_properties[1].variant = "Schema"
       \/ schema.additional_properties[1].bool
NoTypeKeyword(schema) ==
    schema.any_of = <<>> /\ schema.enum_ = <<>> /\ schema.const_ = <<>>

NameAndType(name, field_type) == [name |-> name, field_type |-> field_type]

\* the fields the flattening rule gives for a property: an object with
\* properties and additionalProperties absent or false is replaced by the
\* fields of its sub-properties under its dotted name; an object with
\* additionalProperties true or a schema is one string field.  With
\* keywordless, both cases are limited to objects without anyOf/enum/const.
RECURSIVE FlattenedFields(_, _, _, _)
RECURSIVE FlattenedEach(_, _, _, _)

FlattenedEach(properties, i, parent, keywordless) ==
    IF i > Len(properties) THEN <<>>
    ELSE FlattenedFields(properties[i].name, properties[i].schema, parent,
                         keywordless)
         \o FlattenedEach(properties, i + 1, parent, keywordless)

FlattenedFields(name, schema, parent, keywordless) ==
    LET full == IF parent = <<>> THEN name ELSE parent \o <<".">> \o name
        in_scope == IsType(schema, "object")
                    /\ (keywordless => NoTypeKeyword(schema))
    IN  IF in_scope /\ schema.properties # <<>> /\ AdditionalAbsentOrFalse(schema)
        THEN FlattenedEach(schema.properties[1], 1, full, keywordless)
        ELSE IF in_scope /\ AdditionalTrueOrSchema(schema)
        THEN <<NameAndType(full, "string")>>
        ELSE <<NameAndType(full, determine_field_type(schema).field_type)>>

NamesAndTypes(fields) ==
    [i \in DOMAIN fields |-> NameAndType(fields[i].name, fields[i].field_type)]

\* C7 as stated: every object property with properties and
\* additionalProperties absent or false, at any depth, is replaced by the
\* fields of its sub-properties under its dotted name and gives no field of
\* its own; every object with additionalProperties true or a schema is a
\* single string field.
C7_ObjectsFlattened ==
    pc = "parsed" =>
        NamesAndTypes(result.val.fields)
            = FlattenedEach(EntryProperties(json_schema[1]), 1, <<>>, FALSE)

\* C7, amended: the same for the object properties that carry no anyOf,
\* enum or const keyword (those are classified by the keyword first).
C7_KeywordlessObjectsFlattened ==
    pc = "parsed" =>
        NamesAndTypes(result.val.fields)
            = FlattenedEach(EntryProperties(json_schema[1]), 1, <<>>, TRUE)

HasField(fields, name) == \E i \in DOMAIN fields : fields[i].name = name

\* two nested strict objects were flattened: meta.author.name is a field,
\* meta and meta.author are not
C7_Witness ==
    /\ pc = "parsed"
    /\ shape.depth = 2 /\ shape.keyword = "none" /\ shape.additional = "false"
    /\ HasField(result.val.fields,
                JoinWith(<<LevelName(1), LevelName(2), LevelName(3)>>, <<".">>))
    /\ ~HasField(result.val.fields, LevelName(1))
    /\ ~HasField(result.val.fields, LevelName(1) \o <<".">> \o LevelName(2))

\* the segments of a dotted name
RECURSIVE SplitDots(_, _, _)
SplitDots(s, i, segment) ==
    IF i > Len(s) THEN <<segment>>
    ELSE IF s[i] = "." THEN <<segment>> \o SplitDots(s, i + 1, <<>>)
    ELSE SplitDots(s, i + 1, Append(segment, s[i]))

\* the property a path of names leads to, and whether the object that
\* directly contains it lists its name in `required`
RECURSIVE Locate(_, _, _)
Locate(properties, required, segments) ==
    LET schema == MapGet(properties, segments[1])[1]
    IN  IF Len(segments) = 1
        THEN [schema |-> schema,
              listed |-> required # <<>> /\ Listed(required[1], segments[1])]
        ELSE Locate(schema.properties[1], schema.required, Tail(segments))

\* C8: every JSON-derived field is required iff its name is listed in the
\* `required` array of the object that directly contains it and the
\* property has no default; enclosing objects play no part.
C8_RequiredIffListedWithoutDefault ==
    pc = "parsed" =>
        \A i \in DOMAIN result.val.fields :
            LET field == result.val.fields[i]
                entry == EntrySchemaOf(json_schema[1])
                at == Locate(entry.properties[1], entry.required,
                             SplitDots(field.name, 1, <<>>))
            IN  field.required <=> (at.listed /\ at.schema.default = <<>>)

\* a leaf listed by its own object is required although no enclosing object
\* is listed, and a listed leaf with a default is not required
C8_Witness ==
    /\ pc = "parsed"
    /\ shape.depth = 2 /\ shape.keyword = "none" /\ shape.additional = "false"
    /\ shape.listed = {3} /\ ~shape.has_default
    /\ \E i \in DOMAIN result.val.fields :
          /\ result.val.fields[i].name
               = JoinWith(<<LevelName(1), LevelName(2), LevelName(3)>>, <<".">>)
          /\ result.val.fields[i].required

-----------------------------------------------------------------------------
(* Specification of create_complete_schema on one pair of sources          *)

MaxZodFields == 2

\* JSON Schema of a backbone field of each kind
BackboneKinds ==
    {"reference", "arrayOfReference", "string", "arrayOfString", "number",
     "arrayOfNumber"}
NestedBackboneKinds == {"reference", "string", "arrayOfString"}

ReferenceSchema == [NoKeys EXCEPT !.any_of = <<<<Typed("string"), ReferenceObject>>>>]

BackboneSchema(kind) ==
    CASE kind = "reference" -> ReferenceSchema
      [] kind = "arrayOfReference" ->
            [Typed("array") EXCEPT !.items = ItemsSingle(ReferenceSchema)]
      [] kind = "string" -> Typed("string")
      [] kind = "arrayOfString" ->
            [Typed("array") EXCEPT !.items = ItemsSingle(Typed("string"))]
      [] kind = "number" -> Typed("number")
      [] kind = "arrayOfNumber" ->
            [Typed("array") EXCEPT !.items = ItemsSingle(Typed("number"))]

\* a document with the fields `author` and `meta.author`
BackboneDefinition(first, second) ==
    JsonSchemaDefinition(<<"object">>,
        <<<<Entry(LevelName(2), BackboneSchema(first)),
            Entry(LevelName(1),
                  [Typed("object") EXCEPT
                      !.properties =
                          <<<<Entry(LevelName(2), BackboneSchema(second))>>>>,
                      !.additional_properties = AdditionalBool(FALSE)])>>>>,
        <<<<LevelName(2)>>>>, AdditionalBool(FALSE))

\* a document with the properties `title`, `meta` (an object with `author`
\* and `name`) and `cover`, in that order
OrderedDefinition ==
    JsonSchemaDefinition(<<"object">>,
        <<<<Entry(SiblingName, Typed("string")),
            Entry(LevelName(1),
                  [Typed("object") EXCEPT
                      !.properties =
                          <<<<Entry(LevelName(2), ReferenceSchema),
                              Entry(LevelName(3), Typed("string"))>>>>,
                      !.additional_properties = AdditionalBool(FALSE)]),
            Entry(<<"c","o","v","e","r">>, Typed("string"))>>>>,
        <<<<SiblingName>>>>, AdditionalBool(FALSE))

\* a document whose only property is an object under the empty key, with
\* the leaf `author`
AnonymousDefinition ==
    JsonSchemaDefinition(<<"object">>,
        <<<<Entry(<<>>,
                  [Typed("object") EXCEPT
                      !.properties =
                          <<<<Entry(LevelName(2), Typed("string"))>>>>,
                      !.additional_properties = AdditionalBool(FALSE)])>>>>,
        <<>>, AdditionalBool(FALSE))

OtherName == <<"n","o","t","e","s">>

JsonTexts ==
    { JsonDocument(TRUE, <<DefinitionsPrefix \o CollectionName>>,
                   <<<<Entry(CollectionName, BackboneDefinition(first, second))>>>>) :
          first \in BackboneKinds, second \in NestedBackboneKinds }
    \cup
    { \* not JSON; `$ref` names no definition; a definition without `type`;
      \* a definition without properties; a file-based definition whose
      \* additionalProperties schema has no properties (its own are not
      \* looked at); a file-based definition whose entries have properties
      JsonDocument(FALSE, <<>>, <<>>),
      JsonDocument(TRUE, <<DefinitionsPrefix \o OtherName>>,
                   <<<<Entry(CollectionName,
                             BackboneDefinition("string", "string"))>>>>),
      JsonDocument(TRUE, <<DefinitionsPrefix \o CollectionName>>,
                   <<<<Entry(CollectionName,
                             JsonSchemaDefinition(<<>>, <<>>, <<>>, <<>>))>>>>),
      JsonDocument(TRUE, <<DefinitionsPrefix \o CollectionName>>,
                   <<<<Entry(CollectionName,
                             JsonSchemaDefinition(<<"object">>, <<>>, <<>>, <<>>))>>>>),
      JsonDocument(TRUE, <<DefinitionsPrefix \o CollectionName>>,
                   <<<<Entry(CollectionName,
                             [BackboneDefinition("string", "string") EXCEPT
                                 !.additional_properties =
                                     AdditionalSchema(JsonSchemaDefinition(
                                         <<"object">>, <<>>, <<>>, <<>>))])>>>>),
      JsonDocument(TRUE, <<DefinitionsPrefix \o CollectionName>>,
                   <<<<Entry(CollectionName,
                             JsonSchemaDefinition(<<"object">>, <<>>, <<>>,
                                 AdditionalSchema(
                                     BackboneDefinition("string", "string"))))>>>>),
      JsonDocument(TRUE, <<DefinitionsPrefix \o CollectionName>>,
                   <<<<Entry(CollectionName, OrderedDefinition)>>>>),
      JsonDocument(TRUE, <<DefinitionsPrefix \o CollectionName>>,
                   <<<<Entry(CollectionName, AnonymousDefinition)>>>>) }

\* the fields the heuristic serializer writes
ZodNames ==
    { LevelName(2), LevelName(1) \o <<".">> \o LevelName(2),
      <<"c","o","v","e","r">> }
ZodTargets == {<<"x">>, <<"y">>}
ZodFields ==
    { field_json(name, HelperMatch("Image", 0, <<>>), in_array) :
          name \in ZodNames, in_array \in BOOLEAN }
    \cup { field_json(name, HelperMatch("Reference", 0, target), FALSE) :
               name \in ZodNames, target \in ZodTargets }
    \cup { field_json(name, HelperMatch("Reference", 0, <<"x">>), TRUE) :
               name \in ZodNames }
    \cup { \* a field that is not optional
           [ZodFieldJson(LevelName(1) \o <<".">> \o LevelName(2), "String",
                         <<>>, <<>>, <<>>) EXCEPT !.optional = FALSE] }

ZodTexts ==
    { ZodDocument(TRUE, <<"zod">>, <<fields>>) :
          fields \in SeqsUpTo(ZodFields, MaxZodFields) }
    \cup { ZodDocument(FALSE, <<>>, <<>>), ZodDocument(TRUE, <<"zod">>, <<>>),
           ZodDocument(TRUE, <<>>, << <<>> >>) }

InitMerge ==
    /\ pc = "start"
    /\ json_schema \in {<<>>} \cup {<<json>> : json \in JsonTexts}
    /\ zod_schema \in {<<>>} \cup {<<zod>> : zod \in ZodTexts}
    /\ result = None
    /\ any_of = <<>>
    /\ type_info = None
    /\ IdleParse
    /\ IdleConfig

CreateCompleteSchema ==
    /\ pc = "start"
    /\ result' = create_complete_schema(CollectionName, json_schema, zod_schema)
    /\ pc' = "merged"
    /\ UNCHANGED <<shape, schema_text, probe, zod_out, any_of, type_info,
                   json_schema, zod_schema, config_text, dirs, collections>>

\* a second call with the same collection name and the same two texts
MergeAgain ==
    /\ pc = "merged"
    /\ result' = create_complete_schema(CollectionName, json_schema, zod_schema)
    /\ pc' = "merged_again"
    /\ UNCHANGED <<shape, schema_text, probe, zod_out, any_of, type_info,
                   json_schema, zod_schema, config_text, dirs, collections>>

NextMerge == CreateCompleteSchema \/ MergeAgain

SpecMerge == InitMerge /\ [][NextMerge]_vars

-----------------------------------------------------------------------------
(* Claims about the merger                                                 *)

\* the JSON-derived schema, when the JSON Schema is present and parses
JsonDerived ==
    IF json_schema = <<>> THEN Err("absent")
    ELSE parse_json_schema(CollectionName, json_schema[1])

\* the merged fields are the JSON-derived ones, same number and order, and
\* differ from them at most in type, sub-type and reference targets
SameBackbone(merged, derived) ==
    /\ Len(merged) = Len(derived)
    /\ \A i \in DOMAIN merged :
          [merged[i] EXCEPT
              !.field_type = derived[i].field_type,
              !.sub_type = derived[i].sub_type,
              !.reference_collection = derived[i].reference_collection,
              !.array_reference_collection =
                  derived[i].array_reference_collection] = derived[i]

\* C1: create_complete_schema follows the fallback chain: a JSON Schema that
\* parses gives Ok with the JSON-derived field list as backbone whatever the
\* heuristic schema holds; otherwise a present heuristic schema gives
\* exactly parse_zod_schema; with neither the result is
\* Err("No schema available").
C1_FallbackChain ==
    pc = "merged" =>
        IF JsonDerived.tag = "Ok"
        THEN /\ result.tag = "Ok"
             /\ result.val.collection_name = CollectionName
             /\ SameBackbone(result.val.fields, JsonDerived.val.fields)
        ELSE IF zod_schema # <<>>
        THEN result = parse_zod_schema(CollectionName, zod_schema[1])
        ELSE result = Err("No schema available")

\* both sources usable, the heuristic one with a field the backbone lacks:
\* the result has the two backbone fields only
C1_Witness ==
    /\ pc = "merged"
    /\ JsonDerived.tag = "Ok"
    /\ zod_schema # <<>> /\ zod_schema[1].fields # <<>>
    /\ \E i \in DOMAIN zod_schema[1].fields[1] :
          ~HasField(JsonDerived.val.fields, zod_schema[1].fields[1][i].name)
    /\ Len(zod_schema[1].fields[1]) = 2
    /\ Len(result.val.fields) = 2

\* both sources are available: the JSON Schema parses and the heuristic
\* schema deserializes
BothAvailable ==
    /\ JsonDerived.tag = "Ok"
    /\ zod_schema # <<>>
    /\ zod_schema[1].well_formed
    /\ zod_schema[1].fields # <<>>

HeuristicFields == zod_schema[1].fields[1]

\* a heuristic Reference field: single, or array of references
ReferenceTargetOf(f) ==
    IF f.referencedCollection # <<>> THEN f.referencedCollection
    ELSE f.arrayReferenceCollection
IsHeuristicReference(f) ==
    /\ f.type = "Reference" \/ (f.type = "Array" /\ f.arrayType = <<"Reference">>)
    /\ ReferenceTargetOf(f) # <<>>
IsHeuristicImage(f) ==
    f.type = "Image" \/ (f.type = "Array" /\ f.arrayType = <<"Image">>)

\* positions of the heuristic Reference fields with the given name
ReferencesNamed(name) ==
    { k \in DOMAIN HeuristicFields :
        HeuristicFields[k].name = name /\ IsHeuristicReference(HeuristicFields[k]) }

\* the target the heuristic gives for a name: that of its last such field
HeuristicTarget(name) ==
    LET last == CHOOSE k \in ReferencesNamed(name) :
                    \A j \in ReferencesNamed(name) : j <= k
    IN  ReferenceTargetOf(HeuristicFields[last])

\* C2: with both sources available, a backbone field whose dotted name is
\* that of a heuristic Reference field carries the heuristic target in
\* reference_collection if it is typed reference, in
\* array_reference_collection if it is typed array of reference, and a
\* backbone field of any other type (or of no such name) has no target.
C2_ReferenceTargetOverlay ==
    pc = "merged" /\ BothAvailable =>
        \A i \in DOMAIN result.val.fields :
            LET merged == result.val.fields[i]
                backbone == JsonDerived.val.fields[i]
                matched == ReferencesNamed(backbone.name) # {}
            IN  /\ merged.reference_collection =
                      IF matched /\ backbone.field_type = "reference"
                      THEN HeuristicTarget(backbone.name) ELSE <<>>
                /\ merged.array_reference_collection =
                      IF /\ matched
                         /\ backbone.field_type = "array"
                         /\ backbone.sub_type = <<"reference">>
                      THEN HeuristicTarget(backbone.name) ELSE <<>>

\* the nested reference meta.author took its target and the array of
\* references author took its own
C2_Witness ==
    /\ pc = "merged" /\ BothAvailable
    /\ Len(result.val.fields) = 2
    /\ result.val.fields[1].field_type = "array"
    /\ result.val.fields[1].array_reference_collection = <<<<"x">>>>
    /\ result.val.fields[2].name = LevelName(1) \o <<".">> \o LevelName(2)
    /\ result.val.fields[2].reference_collection = <<<<"y">>>>

ImageNamed(name) ==
    \E k \in DOMAIN HeuristicFields :
        HeuristicFields[k].name = name /\ IsHeuristicImage(HeuristicFields[k])

\* C3: with both sources available, a backbone field whose dotted name is
\* that of a heuristic image field has field_type image iff the backbone
\* typed it string, has sub_type image iff the backbone typed it array of
\* string, and otherwise keeps its JSON-derived type and sub-type (as does
\* every field without such a name).
C3_ImageUpgrade ==
    pc = "merged" /\ BothAvailable =>
        \A i \in DOMAIN result.val.fields :
            LET merged == result.val.fields[i]
                backbone == JsonDerived.val.fields[i]
                matched == ImageNamed(backbone.name)
            IN  /\ merged.field_type =
                      IF matched /\ backbone.field_type = "string"
                      THEN "image" ELSE backbone.field_type
                /\ merged.sub_type =
                      IF /\ matched
                         /\ backbone.field_type = "array"
                         /\ backbone.sub_type = <<"string">>
                      THEN <<"image">> ELSE backbone.sub_type

\* a string field became image, an array of strings became array of image
C3_Witness ==
    /\ pc = "merged" /\ BothAvailable
    /\ Len(result.val.fields) = 2
    /\ JsonDerived.val.fields[1].sub_type = <<"string">>
    /\ result.val.fields[1].sub_type = <<"image">>
    /\ JsonDerived.val.fields[2].field_type = "string"
    /\ result.val.fields[2].field_type = "image"

-----------------------------------------------------------------------------
(* Specification of parse_collections_from_content on one config file with *)
(* the collections blog and notes                                          *)

NameBlog == <<"b","l","o","g">>
NameNotes == <<"n","o","t","e","s">>
NameFootnotes == <<"f","o","o","t","n","o","t","e","s">>
KwDefineConfig == <<"d","e","f","i","n","e","C","o","n","f","i","g">>
KwDefault == <<"d","e","f","a","u","l","t">>
KwSchema == <<"s","c","h","e","m","a",":">>

\* form: name list, inline map, or legacy map inside defineConfig; broken:
\* the collection whose schema body has a brace that is never closed, and
\* fault: whether the closing brace of z.object({ is missing or a nested
\* object is opened and not closed
ConfigShapes ==
    { sh \in [form : {"names", "inline", "legacy"},
              broken : {"none", "blog", "notes"},
              fault : {"none", "missing_close", "extra_open"},
              single : BOOLEAN,
              arrow : {"none", "image", "reference"},
              extra : {"none", "file", "schema"},
              notes_file : BOOLEAN,
              existing : SUBSET {NameBlog, NameNotes, NameFootnotes, KwImage},
              comment : BOOLEAN, spaced : BOOLEAN] :
        /\ (sh.broken = "none") <=> (sh.fault = "none")
        /\ sh.single => (sh.broken # "notes" /\ sh.extra = "none" /\ ~sh.notes_file)
        /\ (sh.broken # "none" \/ sh.comment) =>
              /\ ~sh.single /\ sh.arrow = "none" /\ sh.extra = "none"
              /\ ~sh.notes_file
              /\ sh.existing \subseteq {NameBlog, NameNotes} }

\* the collections the config defines, in the order of their definitions:
\* blog, then footnotes when there is an extra collection, then notes
Defined(sh) ==
    <<NameBlog>>
    \o (IF sh.extra # "none" THEN <<NameFootnotes>> ELSE <<>>)
    \o (IF sh.single THEN <<>> ELSE <<NameNotes>>)

\* whether the collection is defined with `loader: file(..)`
FileLoaded(sh, name) ==
    \/ name = NameNotes /\ sh.notes_file
    \/ name = NameFootnotes /\ sh.extra = "file"

Gap(sh) == IF sh.spaced THEN <<" ">> ELSE <<>>

\* the fields of a collection's schema body
BodyFields(name) ==
    IF name = NameBlog
    THEN <<"c",":">> \o KwImage \o <<"(",")">>
    ELSE IF name = NameFootnotes
    THEN <<"h",":">> \o KwImage \o <<"(",")">>
    ELSE <<"a",":">> \o KwReference \o <<"(","'","x","'",")">>

\* the destructured parameter of a schema written as an arrow function,
\* ({ image }) => or ({ reference }) =>
ArrowHead(sh, name) ==
    IF name # NameBlog \/ sh.arrow = "none" THEN <<>>
    ELSE <<"(","{">> \o Gap(sh)
         \o (IF sh.arrow = "image" THEN KwImage ELSE KwReference)
         \o Gap(sh) \o <<"}",")">> \o Gap(sh) \o <<"=",">">> \o Gap(sh)

\* z.object({ .. }) with its body, well-formed or with the fault
SchemaCall(sh, name) ==
    LET fault == IF (sh.broken = "blog" /\ name = NameBlog)
                    \/ (sh.broken = "notes" /\ name = NameNotes)
                 THEN sh.fault ELSE "none"
    IN  KwZObject \o <<"(","{">> \o Gap(sh)
        \o (IF fault = "extra_open" THEN <<"m",":","{">> ELSE <<>>)
        \o BodyFields(name) \o Gap(sh)
        \o (IF fault = "missing_close" THEN <<>> ELSE <<"}">>)
        \o <<")">>

\* defineCollection({ schema: z.object({ .. }) })
DefineCall(sh, name) ==
    IF FileLoaded(sh, name)
    THEN KwDefineCollection \o <<"(","{">> \o Gap(sh) \o KwLoader \o Gap(sh)
         \o KwFile \o <<"(","'","f","'",")">> \o Gap(sh) \o <<"}",")">>
    ELSE KwDefineCollection \o <<"(","{">> \o Gap(sh) \o KwSchema \o Gap(sh)
         \o ArrowHead(sh, name) \o SchemaCall(sh, name) \o Gap(sh) \o <<"}",")">>

InlineEntries(sh) ==
    JoinWith([i \in DOMAIN Defined(sh) |->
                 Defined(sh)[i] \o <<":">> \o Gap(sh)
                     \o DefineCall(sh, Defined(sh)[i])],
             <<",">> \o Gap(sh))

\* const NAME = defineCollection(..); for every defined collection
ConstDefinitions(sh) ==
    JoinWith([i \in DOMAIN Defined(sh) |->
                 KwConst \o <<" ">> \o Defined(sh)[i] \o Gap(sh) \o <<"=">>
                     \o Gap(sh) \o DefineCall(sh, Defined(sh)[i]) \o <<";","\n">>],
             <<>>)

RenderConfig(sh) ==
    (IF sh.comment THEN <<"/","/"," ","{","\n">> ELSE <<>>)
    \o CASE sh.form = "names" ->
              ConstDefinitions(sh)
                \o KwExport \o <<" ">> \o KwConst \o <<" ">> \o KwCollections
                \o Gap(sh) \o <<"=">> \o Gap(sh) \o <<"{">> \o Gap(sh)
                \o JoinWith(Defined(sh), <<",">> \o Gap(sh))
                \o Gap(sh) \o <<"}",";">>
         [] sh.form = "inline" ->
              KwExport \o <<" ">> \o KwConst \o <<" ">> \o KwCollections
                \o Gap(sh) \o <<"=">> \o Gap(sh) \o <<"{">> \o Gap(sh)
                \o InlineEntries(sh) \o Gap(sh) \o <<"}",";">>
         [] sh.form = "legacy" ->
              KwExport \o <<" ">> \o KwDefault \o <<" ">> \o KwDefineConfig
                \o <<"(","{">> \o Gap(sh) \o KwCollections \o <<":">> \o Gap(sh)
                \o <<"{">> \o Gap(sh) \o InlineEntries(sh) \o Gap(sh)
                \o <<"}">> \o Gap(sh) \o <<"}",")",";">>

InitConfig ==
    /\ pc = "start"
    /\ shape \in ConfigShapes
    /\ config_text = RenderConfig(shape)
    /\ dirs = {Append(DefaultContentDir, name) : name \in shape.existing}
    /\ collections = None
    /\ schema_text = <<>>
    /\ probe = NoProbe
    /\ zod_out = None
    /\ IdleMerger

ParseCollectionsFromContent ==
    /\ pc = "start"
    /\ collections' = parse_collections_from_content(config_text, <<>>, dirs)
    /\ pc' = "listed"
    /\ UNCHANGED <<shape, schema_text, probe, zod_out, any_of, type_info,
                   json_schema, zod_schema, result, config_text, dirs>>

NextConfig == ParseCollectionsFromContent

SpecConfig == InitConfig /\ [][NextConfig]_vars

\* the same config with every schema body well-formed
\* the names of the directories that exist under src/content
ExistingNames == DirectoryNames(dirs, DefaultContentDir)

WellFormedShape(sh) == [sh EXCEPT !.broken = "none", !.fault = "none"]

BrokenName(sh) == IF sh.broken = "blog" THEN NameBlog ELSE NameNotes

\* the collections of a listing that carry the given name
ListedAs(listing, name) ==
    { listing.val[i] : i \in { k \in DOMAIN listing.val : listing.val[k].name = name } }

(* C10: when the schema body of one collection has an unterminated brace,  *)
(* that collection (its directory existing) is still listed, with no       *)
(* heuristic schema, and every sibling collection is listed with the name, *)
(* path and heuristic schema it has when the body is well-formed, in the   *)
(* name-list form and in the inline-map forms of the collections block.    *)
C10_BrokenBodyIsolated ==
    (pc = "listed" /\ shape.broken # "none") =>
        /\ collections.tag = "Ok"
        /\ LET well_formed ==
                   parse_collections_from_content(
                       RenderConfig(WellFormedShape(shape)), <<>>, dirs)
           IN  \A name \in ExistingNames :
                   IF name = BrokenName(shape)
                   THEN /\ ListedAs(collections, name) # {}
                        /\ \A c \in ListedAs(collections, name) : c.schema = <<>>
                   ELSE ListedAs(collections, name) = ListedAs(well_formed, name)

(* C11: a config whose collections block is the legacy map                 *)
(* `collections: { blog: defineCollection(..) }` with one collection, its  *)
(* schema plain or an arrow function with a destructured parameter, gives  *)
(* exactly one collection, named blog, when the directory blog exists,     *)
(* whatever other directories exist.                                       *)
C11_LegacyMapGivesOneCollection ==
    (/\ pc = "listed" /\ shape.form = "legacy" /\ shape.single
     /\ shape.broken = "none" /\ NameBlog \in ExistingNames) =>
        /\ collections.tag = "Ok"
        /\ Len(collections.val) = 1
        /\ collections.val[1].name = NameBlog

(* C12: a defined collection whose directory exists is left out of the     *)
(* listing if and only if its own definition is                            *)
(* `defineCollection({ loader: file(`; a file loader bound to another name *)
(* (footnotes for notes) does not exclude it.                              *)
C12_ExcludedIffOwnFileLoader ==
    (pc = "listed" /\ shape.broken = "none") =>
        /\ collections.tag = "Ok"
        /\ \A i \in DOMAIN Defined(shape) :
               LET name == Defined(shape)[i]
               IN  name \in ExistingNames =>
                       ((ListedAs(collections, name) = {})
                            <=> FileLoaded(shape, name))

\* the name of the one field of the collection's own schema body
OwnField(name) ==
    IF name = NameBlog THEN <<"c">>
    ELSE IF name = NameFootnotes THEN <<"h">> ELSE <<"a">>

(* C13: the heuristic schema attached to a listed collection holds only    *)
(* fields of the body of its own defineCollection(..) call, never a helper *)
(* of another collection, even one whose name ends with its name.          *)
C13_SchemaFromOwnBodyOnly ==
    (pc = "listed" /\ shape.broken = "none" /\ collections.tag = "Ok") =>
        \A i \in DOMAIN collections.val :
            LET c == collections.val[i]
            IN  (c.schema # <<>>) =>
                    \A k \in DOMAIN c.schema[1].fields[1] :
                        c.schema[1].fields[1][k].name = OwnField(c.name)

-----------------------------------------------------------------------------
(* Specification of the heuristic parser on schema bodies with several     *)
(* top-level fields, some of them without a resolvable field name          *)

MaxFields == 3

\* plain   f: image()            ref    r: reference('x')
\* prim    t: z.string()         bare   image()          (no key at all)
\* quoted  "q": image()          wide   <two-byte letter>: image()
\* union   u: z.union([image(), reference('x')])
FieldKinds == {"plain", "ref", "prim", "bare", "quoted", "wide", "union"}

ScanShapes ==
    [fields : SeqsUpTo(FieldKinds, MaxFields), spaced : BOOLEAN]

FieldText(kind, gap) ==
    CASE kind = "plain" -> <<"f", ":">> \o gap \o KwImage \o <<"(", ")">>
      [] kind = "ref" ->
            <<"r", ":">> \o gap \o KwReference \o <<"(", "'">> \o RefTarget
              \o <<"'", ")">>
      [] kind = "prim" -> <<"t", ":">> \o gap \o KwStringCall
      [] kind = "bare" -> KwImage \o <<"(", ")">>
      [] kind = "quoted" ->
            <<"\"", "q", "\"", ":">> \o gap \o KwImage \o <<"(", ")">>
      [] kind = "wide" -> <<Wide, ":">> \o gap \o KwImage \o <<"(", ")">>
      [] kind = "union" ->
            <<"u", ":">> \o gap \o <<"z", ".", "u", "n", "i", "o", "n", "(", "[">>
              \o KwImage \o <<"(", ")", ",">> \o gap
              \o KwReference \o <<"(", "'">> \o RefTarget \o <<"'", ")">>
              \o <<"]", ")">>

RenderScan(sh) ==
    JoinWith([i \in DOMAIN sh.fields |->
                 FieldText(sh.fields[i], IF sh.spaced THEN <<" ">> ELSE <<>>)],
             <<",">> \o (IF sh.spaced THEN <<" ">> ELSE <<>>))

InitScan ==
    /\ pc = "start"
    /\ shape \in ScanShapes
    /\ schema_text = RenderScan(shape)
    /\ probe = NoProbe
    /\ zod_out = None
    /\ IdleMerger
    /\ IdleConfig

SpecScan == InitScan /\ [][NextParse]_vars

(* C14: extract_zod_special_fields returns a value; it emits exactly one   *)
(* field per helper call whose field path resolves, in scan order and      *)
(* named by that path, the other helpers being dropped, and it returns     *)
(* None if and only if no helper resolves, so that a returned schema never *)
(* has an empty field list.                                                *)
C14_OneFieldPerResolvedHelper ==
    pc = "extracted" =>
        LET resolved == ResolvedHelpers(schema_text)
        IN  /\ zod_out.tag \in {"None", "Some"}
            /\ (zod_out.tag = "None") <=> (resolved = <<>>)
            /\ zod_out.tag = "Some" =>
                  /\ Len(zod_out.val.fields[1]) = Len(resolved)
                  /\ \A i \in DOMAIN resolved :
                        Ok(zod_out.val.fields[1][i].name)
                          = resolve_field_path(schema_text, resolved[i].position)

\* the identifier that directly precedes, up to whitespace, the nearest
\* colon before the character index `at` (1-based colon positions); <<>>
\* when there is no colon or no identifier before it
NameBeforeNearestColon(text, at) ==
    LET colons == {c \in 1..at : text[c] = ":"}
    IN  IF colons = {} THEN <<>>
        ELSE LET colon == Greatest(colons)
                 last == Greatest({k \in 0..(colon - 1) :
                                      k = 0 \/ ~IsWhitespace(text[k])})
                 first == Least({b \in 1..(last + 1) :
                                    \A k \in b..last : IsIdentChar(text[k])})
             IN  SubSeq(text, first, last)

(* C15: the immediate field name of a helper is the identifier directly    *)
(* preceding, up to whitespace, the nearest colon before the helper; when  *)
(* that colon is not preceded by an identifier (a quoted key) the helper   *)
(* is skipped, not attributed to an earlier field.  Stated on top-level    *)
(* fields of bodies without multi-byte characters.                         *)
C15_NameBeforeNearestColonOrSkipped ==
    (pc = "resolved" /\ \A i \in DOMAIN schema_text : schema_text[i] # Wide) =>
        LET name == NameBeforeNearestColon(schema_text, probe.helper.position)
        IN  IF name = <<>> THEN probe.path.tag = "Err"
            ELSE probe.path = Ok(name)

-----------------------------------------------------------------------------
(* Claims about the failure of the JSON Schema and the heuristic-only       *)
(* result                                                                  *)

\* the three ways a JSON Schema document fails, read off the document
NotOfExpectedShape(doc) ==
    \/ ~doc.well_formed
    \/ doc.ref_ = <<>>
    \/ doc.definitions = <<>>
    \/ \E i \in DOMAIN doc.definitions[1] :
          ~DefinitionDeserializes(doc.definitions[1][i].schema)
RefTargetAbsent(doc) ==
    /\ ~NotOfExpectedShape(doc)
    /\ \A i \in DOMAIN doc.definitions[1] :
          DefinitionsPrefix \o doc.definitions[1][i].name # doc.ref_[1]
EntryWithoutProperties(doc) ==
    /\ ~NotOfExpectedShape(doc)
    /\ ~RefTargetAbsent(doc)
    /\ EntrySchemaOf(doc).properties = <<>>

\* the heuristic schema deserializes
ValidHeuristic ==
    /\ zod_schema # <<>>
    /\ zod_schema[1].well_formed
    /\ zod_schema[1].type # <<>>
    /\ zod_schema[1].fields # <<>>

FieldNamesOf(fields) == [i \in DOMAIN fields |-> fields[i].name]

\* C16: parse_json_schema returns Err when the text is not JSON of the
\* expected shape, when `$ref` names no definition, and when the resolved
\* entry definition (the definition, or its additionalProperties schema when
\* that is an object) has no properties; create_complete_schema called with
\* a valid heuristic schema then returns Ok with the heuristic fields.
C16_JsonFailureFallsBack ==
    (/\ pc = "merged"
     /\ json_schema # <<>>
     /\ \/ NotOfExpectedShape(json_schema[1])
        \/ RefTargetAbsent(json_schema[1])
        \/ EntryWithoutProperties(json_schema[1]))
    => /\ JsonDerived.tag = "Err"
       /\ ValidHeuristic =>
             /\ result.tag = "Ok"
             /\ result.val.collection_name = CollectionName
             /\ FieldNamesOf(result.val.fields) = FieldNamesOf(HeuristicFields)

\* a file-based definition that has properties of its own but whose
\* additionalProperties schema has none: the JSON Schema fails and the two
\* heuristic fields are the result
C16_Witness ==
    /\ pc = "merged"
    /\ json_schema # <<>>
    /\ EntryWithoutProperties(json_schema[1])
    /\ json_schema[1].definitions[1][1].schema.properties # <<>>
    /\ ValidHeuristic
    /\ Len(HeuristicFields) = 2
    /\ result.tag = "Ok"
    /\ Len(result.val.fields) = 2

\* the heuristic-only fallback: no usable JSON Schema and a heuristic schema
\* that deserializes
HeuristicOnly ==
    /\ pc = "merged"
    /\ JsonDerived.tag # "Ok"
    /\ ValidHeuristic

NameCover == <<"c","o","v","e","r">>
LabelCover == <<"C","o","v","e","r">>

\* C17: in the heuristic-only fallback the result has one field per
\* heuristic field, in the same order, with the same name, the title-cased
\* name as label, required exactly when the heuristic field is not optional,
\* and neither is_nested nor parent_path, dotted names included.
C17_HeuristicOnlyFieldPerField ==
    HeuristicOnly =>
        /\ result.tag = "Ok"
        /\ Len(result.val.fields) = Len(HeuristicFields)
        /\ \A i \in DOMAIN HeuristicFields :
              /\ result.val.fields[i].name = HeuristicFields[i].name
              /\ result.val.fields[i].label
                     = camel_case_to_title_case(HeuristicFields[i].name)
              /\ result.val.fields[i].name = NameCover
                     => result.val.fields[i].label = LabelCover
              /\ result.val.fields[i].required <=> ~HeuristicFields[i].optional
              /\ result.val.fields[i].is_nested = <<>>
              /\ result.val.fields[i].parent_path = <<>>

\* the heuristic fields `cover` (optional) and the dotted `meta.author` (not
\* optional) with no JSON Schema: two fields in that order, the second
\* required and without nesting data
C17_Witness ==
    /\ HeuristicOnly
    /\ json_schema = <<>>
    /\ Len(HeuristicFields) = 2
    /\ HeuristicFields[1].name = NameCover /\ HeuristicFields[1].optional
    /\ \E j \in DOMAIN HeuristicFields[2].name : HeuristicFields[2].name[j] = "."
    /\ ~HeuristicFields[2].optional
    /\ result.tag = "Ok"
    /\ Len(result.val.fields) = 2
    /\ ~result.val.fields[1].required
    /\ result.val.fields[2].required
    /\ result.val.fields[2].parent_path = <<>>

-----------------------------------------------------------------------------
(* Claims about the returned SchemaDefinition as a whole                   *)

\* what a call hands back, as the caller serializes it
Serialized(r) ==
    IF r.tag = "Ok" THEN Ok(SerializeDefinition(r.val)) ELSE r

\* the names of the properties of the entry definition in document order,
\* those of a flattened object in the place of the object
DocumentOrder ==
    FieldNamesOf(FlattenedEach(EntryProperties(json_schema[1]), 1, <<>>, TRUE))

NamesUnique(fields) ==
    \A i, j \in DOMAIN fields : fields[i].name = fields[j].name => i = j

\* C19: in every SchemaDefinition create_complete_schema returns, built from
\* the JSON Schema or from the heuristic schema alone, no two fields have
\* the same name.
C19_FieldNamesUnique ==
    (pc \in {"merged", "merged_again"} /\ result.tag = "Ok")
        => NamesUnique(result.val.fields)

\* C20: in every field of every SchemaDefinition the pipeline produces (JSON
\* backbone with or without overlay, or heuristic-only fallback on a schema
\* the heuristic serializer wrote), array_reference_collection is present
\* only if field_type is "array" and sub_type is "reference".
C20_ArrayTargetOnlyOnReferenceArrays ==
    (pc \in {"merged", "merged_again"} /\ result.tag = "Ok") =>
        \A i \in DOMAIN result.val.fields :
            result.val.fields[i].array_reference_collection # <<>>
                => /\ result.val.fields[i].field_type = "array"
                   /\ result.val.fields[i].sub_type = <<"reference">>

\* an overlay gave the array of references `author` its target, while the
\* array of strings `meta.author`, named by a heuristic Reference field too,
\* has none
C20_Witness ==
    /\ pc = "merged" /\ BothAvailable
    /\ result.tag = "Ok"
    /\ \E i, j \in DOMAIN result.val.fields :
          /\ result.val.fields[i].field_type = "array"
          /\ result.val.fields[i].sub_type = <<"reference">>
          /\ result.val.fields[i].array_reference_collection # <<>>
          /\ result.val.fields[j].field_type = "array"
          /\ result.val.fields[j].sub_type = <<"string">>
          /\ ReferencesNamed(result.val.fields[j].name) # {}
          /\ result.val.fields[j].array_reference_collection = <<>>

\* the heuristic-only fallback on an array of references: the target is
\* carried by an array field with sub-type reference
C20_WitnessHeuristicOnly ==
    /\ HeuristicOnly
    /\ result.tag = "Ok"
    /\ \E i \in DOMAIN result.val.fields :
          /\ result.val.fields[i].array_reference_collection # <<>>
          /\ result.val.fields[i].field_type = "array"

-----------------------------------------------------------------------------
(* Claims about the nesting data and the constraints of a field            *)

\* where each field of a document comes from: the names of the flattened
\* objects around it (outermost first) and the property's own name
Origin(parents, own) == [parents |-> parents, own |-> own]

RECURSIVE OriginsOf(_, _, _)
RECURSIVE OriginsEach(_, _, _)

OriginsEach(properties, i, parents) ==
    IF i > Len(properties) THEN <<>>
    ELSE OriginsOf(properties[i].name, properties[i].schema, parents)
         \o OriginsEach(properties, i + 1, parents)

OriginsOf(name, schema, parents) ==
    IF /\ IsType(schema, "object") /\ NoTypeKeyword(schema)
       /\ schema.properties # <<>> /\ AdditionalAbsentOrFalse(schema)
    THEN OriginsEach(schema.properties[1], 1, Append(parents, name))
    ELSE <<Origin(parents, name)>>

\* the nesting data the origin of a field calls for
NestingMatches(field, origin) ==
    IF origin.parents = <<>>
    THEN /\ field.parent_path = <<>>
         /\ field.is_nested = <<>>
         /\ field.name = origin.own
    ELSE /\ field.parent_path = <<JoinWith(origin.parents, <<".">>)>>
         /\ field.is_nested = <<TRUE>>
         /\ field.name = field.parent_path[1] \o <<".">> \o origin.own

\* C21: in every JSON-derived field, parent_path is present iff the field
\* comes from flattening a nested object, is_nested is Some(true) exactly
\* then, and the name is parent_path, ".", and the property's own name;
\* top-level fields have neither parent_path nor is_nested.
C21_ParentPathIffFlattened ==
    (pc = "merged" /\ JsonDerived.tag = "Ok") =>
        LET origins == OriginsEach(EntryProperties(json_schema[1]), 1, <<>>)
        IN  /\ Len(JsonDerived.val.fields) = Len(origins)
            /\ \A i \in DOMAIN origins :
                  NestingMatches(JsonDerived.val.fields[i], origins[i])

-----------------------------------------------------------------------------
(* Specification of create_complete_schema on one field with constraint    *)
(* keywords: a JSON Schema property, or a heuristic field with a           *)
(* constraints object                                                      *)

Keywords ==
    {"minimum", "maximum", "exclusiveMinimum", "exclusiveMaximum", "minLength",
     "maxLength", "pattern", "format", "minItems", "maxItems"}

ConstraintShapes ==
    [source : {"json"}, type : {"string", "number", "array"},
     keys : SUBSET Keywords, format : {"email", "uuid"}, members : {{}}]
    \cup
    [source : {"heuristic"}, type : {"string"}, keys : {{}},
     format : {"email"}, members : SUBSET (1..7)]

NumberIf(present, n) == IF present THEN <<n>> ELSE <<>>

\* the property `title` with the keywords of the shape
ConstrainedProperty(sh) ==
    [Typed(sh.type) EXCEPT
        !.minimum = NumberIf("minimum" \in sh.keys, 3),
        !.maximum = NumberIf("maximum" \in sh.keys, 9),
        !.exclusive_minimum = NumberIf("exclusiveMinimum" \in sh.keys, 1),
        !.exclusive_maximum = NumberIf("exclusiveMaximum" \in sh.keys, 7),
        !.min_length = NumberIf("minLength" \in sh.keys, 2),
        !.max_length = NumberIf("maxLength" \in sh.keys, 8),
        !.min_items = NumberIf("minItems" \in sh.keys, 1),
        !.max_items = NumberIf("maxItems" \in sh.keys, 5),
        !.pattern = IF "pattern" \in sh.keys THEN <<"^a">> ELSE <<>>,
        !.format = IF "format" \in sh.keys THEN <<sh.format>> ELSE <<>>]

ConstrainedDocument(sh) ==
    JsonDocument(TRUE, <<DefinitionsPrefix \o CollectionName>>,
        <<<<Entry(CollectionName,
                  JsonSchemaDefinition(<<"object">>,
                      <<<<Entry(SiblingName, ConstrainedProperty(sh))>>>>,
                      <<>>, AdditionalBool(FALSE)))>>>>)

\* the members a heuristic constraints object is made of; a value of the
\* wrong kind and a flag that is false are among them
ObjectMembers ==
    << [key |-> "min", kind |-> "number", val |-> 3],
       [key |-> "max", kind |-> "string", val |-> "9"],
       [key |-> "minLength", kind |-> "number", val |-> 2],
       [key |-> "regex", kind |-> "string", val |-> "^a"],
       [key |-> "email", kind |-> "bool", val |-> FALSE],
       [key |-> "url", kind |-> "bool", val |-> TRUE],
       [key |-> "length", kind |-> "number", val |-> 4] >>

RECURSIVE ObjectOf(_, _)
ObjectOf(members, i) ==
    IF i > Len(ObjectMembers) THEN <<>>
    ELSE (IF i \in members THEN <<ObjectMembers[i]>> ELSE <<>>)
         \o ObjectOf(members, i + 1)

ConstrainedHeuristic(sh) ==
    ZodDocument(TRUE, <<"zod">>,
        << << [ZodFieldJson(SiblingName, "String", <<>>, <<>>, <<>>) EXCEPT
                  !.constraints = <<ObjectOf(sh.members, 1)>>] >> >>)

InitConstraints ==
    /\ pc = "start"
    /\ shape \in ConstraintShapes
    /\ json_schema = IF shape.source = "json"
                     THEN <<ConstrainedDocument(shape)>> ELSE <<>>
    /\ zod_schema = IF shape.source = "heuristic"
                    THEN <<ConstrainedHeuristic(shape)>> ELSE <<>>
    /\ result = None
    /\ any_of = <<>>
    /\ type_info = None
    /\ schema_text = <<>>
    /\ probe = NoProbe
    /\ zod_out = None
    /\ IdleConfig

SpecConstraints == InitConstraints /\ [][NextMerge]_vars

\* at least one of the six values of a FieldConstraints is set
SomeConstraintSet(c) ==
    \/ c.min # <<>> \/ c.max # <<>> \/ c.min_length # <<>>
    \/ c.max_length # <<>> \/ c.pattern # <<>> \/ c.format # <<>>

\* C22: in every field the JSON-Schema interpreter or the heuristic-only
\* fallback produces, constraints is present only if at least one of min,
\* max, min_length, max_length, pattern, format is set; a property with no
\* constraint keyword, or a heuristic field with an empty constraints
\* object, has constraints absent.
C22_NoEmptyConstraints ==
    (pc \in {"merged", "merged_again"} /\ result.tag = "Ok") =>
        \A i \in DOMAIN result.val.fields :
            /\ result.val.fields[i].constraints # <<>>
                  => SomeConstraintSet(result.val.fields[i].constraints[1])
            /\ (shape.keys = {} /\ shape.members = {})
                  => result.val.fields[i].constraints = <<>>

\* an array property whose only keyword is minItems has constraints with
\* min_length alone
C22_Witness ==
    /\ pc = "merged"
    /\ shape.source = "json" /\ shape.type = "array"
    /\ shape.keys = {"minItems"}
    /\ result.tag = "Ok"
    /\ Len(result.val.fields) = 1
    /\ result.val.fields[1].constraints
           = <<FieldConstraints(<<>>, <<>>, <<1>>, <<>>, <<>>, <<>>)>>

-----------------------------------------------------------------------------
(* Specification of find_matching_closing_brace on one text, from the      *)
(* offset of one of its opening delimiters                                 *)

MaxText == 5

BraceAlphabet == {"{", "}", "(", ")", "\"", Wide}
DelimiterPairs == {<<"{", "}">>, <<"(", ")">>}

InitBrace ==
    /\ pc = "start"
    /\ schema_text \in SeqsUpTo(BraceAlphabet, MaxText)
    /\ \E pair \in DelimiterPairs, k \in DOMAIN schema_text :
          /\ schema_text[k] = pair[1]
          /\ shape = [start_pos |-> ByteOf(schema_text, k - 1),
                      open_char |-> pair[1], close_char |-> pair[2]]
    /\ result = None
    /\ probe = NoProbe
    /\ zod_out = None
    /\ IdleMerger
    /\ IdleConfig

FindMatchingClosingBrace ==
    /\ pc = "start"
    /\ result' = find_matching_closing_brace(schema_text, shape.start_pos,
                                             shape.open_char, shape.close_char)
    /\ pc' = "matched"
    /\ UNCHANGED <<shape, schema_text, probe, zod_out, any_of, type_info,
                   json_schema, zod_schema, config_text, dirs, collections>>

NextBrace == FindMatchingClosingBrace

SpecBrace == InitBrace /\ [][NextBrace]_vars

\* the depth after the character with 1-based index k, counted from the
\* character with 1-based index from
DepthAfter(text, from, k, open_char, close_char) ==
    Cardinality({n \in from..k : text[n] = open_char})
    - Cardinality({n \in from..k : text[n] = close_char})

\* the closing delimiters at which the depth is back to zero
BalancedAt(text, from, open_char, close_char) ==
    {k \in from..Len(text) :
        /\ text[k] = close_char
        /\ DepthAfter(text, from, k, open_char, close_char) = 0}

\* C23: with start at an opening delimiter, find_matching_closing_brace
\* returns Ok(p), p the offset just past the first closing delimiter at
\* which the depth (+1 per open, -1 per close, from start) is back to zero,
\* and Err "Unclosed braces" iff the depth never is; delimiters inside
\* string literals count like any other.
C23_MatchesFirstReturnToZero ==
    pc = "matched" =>
        LET from == CharAtByte(schema_text, shape.start_pos) + 1
            balanced == BalancedAt(schema_text, from, shape.open_char,
                                   shape.close_char)
        IN  IF balanced = {}
            THEN result = Err("Unclosed braces")
            ELSE result = Ok(ByteLen(SubSeq(schema_text, 1, Least(balanced))))

\* in ( { " } " } the brace opened at offset 1 is closed by the brace inside
\* the string literal: the result is offset 4
C23_Witness ==
    /\ pc = "matched"
    /\ schema_text = <<"(", "{", "\"", "}", "\"">>
    /\ shape.start_pos = 1 /\ shape.open_char = "{"
    /\ result = Ok(4)

-----------------------------------------------------------------------------
(* Specification of remove_comments on one source text                     *)

MaxSource == 5

SourceAlphabet == {"\"", "'", "\\", "/", "*", "\n", "a"}

InitComments ==
    /\ pc = "start"
    /\ config_text \in SeqsUpTo(SourceAlphabet, MaxSource)
    /\ dirs = {}
    /\ collections = None
    /\ result = None
    /\ IdleParse
    /\ any_of = <<>>
    /\ type_info = None
    /\ json_schema = <<>>
    /\ zod_schema = <<>>

RemoveComments ==
    /\ pc = "start"
    /\ result' = remove_comments(config_text)
    /\ pc' = "stripped"
    /\ UNCHANGED <<shape, schema_text, probe, zod_out, any_of, type_info,
                   json_schema, zod_schema, config_text, dirs, collections>>

NextComments == RemoveComments

SpecComments == InitComments /\ [][NextComments]_vars

\* what each character of a source text is, read one character at a time:
\* "string" (the quotes, the backslashes and the escaped characters of a
\* string literal), "comment" (a line comment up to, not including, the
\* newline that ends it; a block comment with its delimiters) or "code"
RECURSIVE Lexed(_, _, _, _)
Lexed(text, k, mode, quote) ==
    IF k > Len(text) THEN <<>>
    ELSE LET ch == text[k]
             next == IF k < Len(text) THEN text[k + 1] ELSE ""
         IN  CASE mode = "escape" ->
                    <<"string">> \o Lexed(text, k + 1, "string", quote)
               [] mode = "string" ->
                    <<"string">>
                    \o Lexed(text, k + 1,
                             IF ch = "\\" THEN "escape"
                             ELSE IF ch = quote THEN "code" ELSE "string",
                             quote)
               [] mode = "block" ->
                    IF ch = "*" /\ next = "/"
                    THEN <<"comment", "comment">> \o Lexed(text, k + 2, "code", quote)
                    ELSE <<"comment">> \o Lexed(text, k + 1, "block", quote)
               [] mode = "line" ->
                    IF ch = "\n"
                    THEN <<"code">> \o Lexed(text, k + 1, "code", quote)
                    ELSE <<"comment">> \o Lexed(text, k + 1, "line", quote)
               [] OTHER ->
                    IF ch \in {"\"", "'"}
                    THEN <<"string">> \o Lexed(text, k + 1, "string", ch)
                    ELSE IF ch = "/" /\ next = "/"
                    THEN <<"comment", "comment">> \o Lexed(text, k + 2, "line", quote)
                    ELSE IF ch = "/" /\ next = "*"
                    THEN <<"comment", "comment">> \o Lexed(text, k + 2, "block", quote)
                    ELSE <<"code">> \o Lexed(text, k + 1, "code", quote)

LexedText(text) == Lexed(text, 1, "code", "\"")

\* the characters of a text at the positions in keep, in order
RECURSIVE Kept(_, _, _)
Kept(text, keep, k) ==
    IF k > Len(text) THEN <<>>
    ELSE (IF k \in keep THEN <<text[k]>> ELSE <<>>) \o Kept(text, keep, k + 1)

\* C24: remove_comments keeps every character of a single- or double-quoted
\* string, where a backslash escapes the next character and `//` and `/*`
\* start no comment, and removes every line comment and every block comment
\* outside strings: the output is the text without its comment characters.
C24_StringsKeptCommentsRemoved ==
    pc = "stripped" =>
        result = Kept(config_text,
                      {k \in DOMAIN config_text :
                          LexedText(config_text)[k] # "comment"}, 1)

\* in "\"// the escaped quote does not end the string and the `//` after it
\* starts no comment: the output is the input
C24_Witness ==
    /\ pc = "stripped"
    /\ config_text = <<"\"", "\\", "\"", "/", "/">>
    /\ result = config_text

Newlines(text) == Cardinality({k \in DOMAIN text : text[k] = "\n"})

\* C25: remove_comments keeps the newlines that lie inside a removed block
\* comment and the newline that ends a line comment: the output has as many
\* newlines as the input.
C25_NewlinesPreserved ==
    pc = "stripped" => Newlines(result) = Newlines(config_text)

-----------------------------------------------------------------------------
(* Specification of extract_collections_block on one text made of the two  *)
(* block openings, braces and a word                                       *)

MaxTokens == 5

TokenExport ==
    KwExport \o <<" ">> \o KwConst \o <<" ">> \o KwCollections \o <<" ", "=", " ", "{">>
TokenLegacy == KwCollections \o <<":", " ", "{">>
BlockTokens == {"export", "legacy", "open", "close", "word"}

TokenText(token) ==
    CASE token = "export" -> TokenExport
      [] token = "legacy" -> TokenLegacy
      [] token = "open" -> <<"{">>
      [] token = "close" -> <<"}">>
      [] token = "word" -> <<"a">>

RenderTokens(tokens) ==
    JoinWith([i \in DOMAIN tokens |-> TokenText(tokens[i])], <<" ">>)

InitBlock ==
    /\ pc = "start"
    /\ shape \in SeqsUpTo(BlockTokens, MaxTokens)
    /\ config_text = RenderTokens(shape)
    /\ dirs = {}
    /\ collections = None
    /\ result = None
    /\ schema_text = <<>>
    /\ probe = NoProbe
    /\ zod_out = None
    /\ IdleMerger

ExtractCollectionsBlock ==
    /\ pc = "start"
    /\ result' = extract_collections_block(config_text)
    /\ pc' = "located"
    /\ UNCHANGED <<shape, schema_text, probe, zod_out, any_of, type_info,
                   json_schema, zod_schema, config_text, dirs, collections>>

NextBlock == ExtractCollectionsBlock

SpecBlock == InitBlock /\ [][NextBlock]_vars

\* the tokens that open a brace
Opening == {"export", "legacy", "open"}

\* the tokens at which the brace opened by token i is closed
ClosersOf(tokens, i) ==
    {k \in i..Len(tokens) :
        /\ tokens[k] = "close"
        /\ Cardinality({n \in i..k : tokens[n] \in Opening})
               = Cardinality({n \in i..k : tokens[n] = "close"})}

Matchable(tokens, i) == ClosersOf(tokens, i) # {}

\* the object literal opened by token i, from its brace to the matching one
BlockOf(tokens, i) ==
    Some(<<"{", " ">>
         \o RenderTokens(SubSeq(tokens, i + 1, Least(ClosersOf(tokens, i)))))

Occurrences(tokens, token) == {i \in DOMAIN tokens : tokens[i] = token}

\* the leftmost occurrence of a shape has a brace that can be matched
FirstMatchable(tokens, token) ==
    /\ Occurrences(tokens, token) # {}
    /\ Matchable(tokens, Least(Occurrences(tokens, token)))

\* C26 as stated: the `export const collections = {` block is returned when
\* it occurs and its brace can be matched, even when `collections: {`
\* occurs too; otherwise the first `collections: {` occurrence whose brace
\* can be matched; None exactly when neither shape occurs with a matchable
\* brace.
C26_FirstMatchableOccurrence ==
    pc = "located" =>
        LET matchable == {i \in Occurrences(shape, "legacy") : Matchable(shape, i)}
        IN  IF FirstMatchable(shape, "export")
            THEN result = BlockOf(shape, Least(Occurrences(shape, "export")))
            ELSE IF matchable # {}
            THEN result = BlockOf(shape, Least(matchable))
            ELSE result = None

\* C26, amended: of each shape only the leftmost occurrence is tried.  The
\* `export const collections = {` block is returned when the leftmost one
\* can be matched, even when `collections: {` occurs too; otherwise the
\* block of the leftmost `collections: {` when it can be matched; None in
\* every other case.  A returned block starts with `{` and ends with the
\* matching `}`.
C26_LeftmostOccurrenceOnly ==
    pc = "located" =>
        /\ IF FirstMatchable(shape, "export")
           THEN result = BlockOf(shape, Least(Occurrences(shape, "export")))
           ELSE IF FirstMatchable(shape, "legacy")
           THEN result = BlockOf(shape, Least(Occurrences(shape, "legacy")))
           ELSE result = None
        /\ result # None =>
              /\ Head(result.val) = "{"
              /\ result.val[Len(result.val)] = "}"
              /\ find_matching_closing_brace(result.val, 0, "{", "}")
                     = Ok(Len(result.val))

\* `collections: { }` comes before `export const collections = { }`: the
\* block of the export form is returned
C26_Witness ==
    /\ pc = "located"
    /\ shape = <<"legacy", "close", "export", "word", "close">>
    /\ result = Some(<<"{", " ", "a", " ", "}">>)

-----------------------------------------------------------------------------
(* Specification of parse_collections_from_content on one config file, one *)
(* content directory override and one file system                          *)

OverridePaths == {<<"content">>}

\* the directories that may exist: blog and notes under the default content
\* directory, under each override and at the project root
CandidateDirs ==
    { Append(base, name) :
        base \in {DefaultContentDir, <<>>} \cup OverridePaths,
        name \in {NameBlog, NameNotes} }

DirShapes ==
    [form : {"names", "inline", "legacy"},
     override : {<<>>} \cup {<<path>> : path \in OverridePaths},
     file_system : SUBSET CandidateDirs]

\* a config file that declares blog and notes
DeclaringShape(form) ==
    [form |-> form, broken |-> "none", fault |-> "none", single |-> FALSE,
     arrow |-> "none", extra |-> "none", notes_file |-> FALSE,
     existing |-> {}, comment |-> FALSE, spaced |-> FALSE]

InitDirs ==
    /\ pc = "start"
    /\ shape \in DirShapes
    /\ config_text = RenderConfig(DeclaringShape(shape.form))
    /\ dirs = shape.file_system
    /\ collections = None
    /\ schema_text = <<>>
    /\ probe = NoProbe
    /\ zod_out = None
    /\ IdleMerger

ParseCollectionsInContentDir ==
    /\ pc = "start"
    /\ collections' = parse_collections_from_content(config_text,
                                                     shape.override, dirs)
    /\ pc' = "listed"
    /\ UNCHANGED <<shape, schema_text, probe, zod_out, any_of, type_info,
                   json_schema, zod_schema, result, config_text, dirs>>

NextDirs == ParseCollectionsInContentDir

SpecDirs == InitDirs /\ [][NextDirs]_vars

\* the content directory the arguments call for
ContentDirOf(sh) ==
    IF sh.override = <<>> THEN <<"src", "content">> ELSE sh.override[1]

\* C27: every Collection returned has path = content_dir joined with its
\* name, and that path is an existing directory, content_dir being
\* project_path joined with the override when one is given and
\* project_path/src/content otherwise; a declared collection whose
\* directory does not exist under content_dir is not returned.
C27_PathUnderContentDirExists ==
    pc = "listed" =>
        /\ collections.tag = "Ok"
        /\ \A i \in DOMAIN collections.val :
              /\ collections.val[i].path
                     = ContentDirOf(shape) \o <<collections.val[i].name>>
              /\ collections.val[i].path \in dirs
        /\ \A name \in {NameBlog, NameNotes} :
              (ContentDirOf(shape) \o <<name>>) \notin dirs
                  => ListedAs(collections, name) = {}

\* with the override `content`, blog exists under content and under
\* src/content, notes under src/content only: blog alone is returned, at
\* content/blog
C27_Witness ==
    /\ pc = "listed"
    /\ shape.override = << <<"content">> >>
    /\ dirs = {<<"content">> \o <<NameBlog>>,
               <<"src", "content">> \o <<NameBlog>>,
               <<"src", "content">> \o <<NameNotes>>}
    /\ collections.tag = "Ok"
    /\ Len(collections.val) = 1
    /\ collections.val[1].name = NameBlog
    /\ collections.val[1].path = <<"content">> \o <<NameBlog>>

-----------------------------------------------------------------------------
(* commands/project.rs: the project scan.  The config parse, the directory *)
(* scan and the files under .astro/collections are its inputs.             *)

\* Err when the file is missing or unreadable
load_json_schema_for_collection(files, collection_name) ==
    IF MapGet(files, collection_name) = <<>>
    THEN Err("JSON schema not found")
    ELSE Ok(MapGet(files, collection_name)[1])

\* `if let Ok(json_schema) = load_json_schema_for_collection(..) { .. }`
LoadJsonSchema(collection, files) ==
    LET loaded == load_json_schema_for_collection(files, collection.name)
    IN  IF loaded.tag = "Ok"
        THEN [collection EXCEPT !.json_schema = <<loaded.val>>]
        ELSE collection

\* variant that serializes an empty definition when the merge fails
generate_complete_schema_empty_on_failure(collection) ==
    LET merged == create_complete_schema(collection.name, collection.json_schema,
                                         collection.schema)
    IN  IF merged.tag = "Ok"
        THEN [collection EXCEPT
                 !.complete_schema = <<SerializeDefinition(merged.val)>>]
        ELSE [collection EXCEPT
                 !.complete_schema =
                     <<SerializeDefinition(SchemaDefinition(collection.name, <<>>))>>]

generate_complete_schema(collection) ==
    LET merged == create_complete_schema(collection.name, collection.json_schema,
                                         collection.schema)
    IN  IF merged.tag = "Ok"
        THEN [collection EXCEPT
                 !.complete_schema = <<SerializeDefinition(merged.val)>>]
        ELSE collection

\* the two `for collection in &mut collections` loops
LoadAndGenerate(found, files) ==
    [i \in DOMAIN found |->
        generate_complete_schema(LoadJsonSchema(found[i], files))]

\* parsed: what parse_astro_config returns; directory_scan: what
\* scan_content_directories_with_override returns when it is called
scan_project_with_content_dir(parsed, directory_scan, files) ==
    IF parsed.tag = "Ok" /\ parsed.val # <<>>
    THEN Ok(LoadAndGenerate(parsed.val, files))
    ELSE IF directory_scan.tag = "Err" THEN directory_scan
    ELSE Ok(LoadAndGenerate(directory_scan.val, files))

-----------------------------------------------------------------------------
(* Specification of scan_project_with_content_dir on a project with the    *)
(* collections blog and notes                                              *)

ScannedNames == <<NameBlog, NameNotes>>

\* the sources a collection may have: no file, a file that is not a JSON
\* Schema, a JSON Schema; no heuristic schema, an unusable one, a usable one
SourceKinds == {"absent", "unusable", "usable"}

JsonSourceOf(name, kind) ==
    IF kind = "unusable" THEN JsonDocument(FALSE, <<>>, <<>>)
    ELSE JsonDocument(TRUE, <<DefinitionsPrefix \o name>>,
             <<<<Entry(name, BackboneDefinition("string", "reference"))>>>>)

HeuristicSourceOf(kind) ==
    IF kind = "absent" THEN <<>>
    ELSE IF kind = "unusable" THEN <<ZodDocument(FALSE, <<>>, <<>>)>>
    ELSE <<ZodDocument(TRUE, <<"zod">>,
               << <<field_json(LevelName(1) \o <<".">> \o LevelName(2),
                               HelperMatch("Reference", 0, <<"x">>), FALSE)>> >>)>>

ProjectShapes ==
    [config : {"listed", "empty", "failed"},
     directory : {"read", "failed"},
     json : [1..Len(ScannedNames) -> SourceKinds],
     heuristic : [1..Len(ScannedNames) -> SourceKinds]]

\* the collections the config parse lists, each with its heuristic schema
ListedCollections(sh) ==
    [i \in 1..Len(ScannedNames) |->
        [Collection(ScannedNames[i], Append(DefaultContentDir, ScannedNames[i]))
            EXCEPT !.schema = HeuristicSourceOf(sh.heuristic[i])]]

\* the collections the directory scan finds
DirectoryCollections ==
    [i \in 1..Len(ScannedNames) |->
        Collection(ScannedNames[i], Append(DefaultContentDir, ScannedNames[i]))]

RECURSIVE SchemaFiles(_, _)
SchemaFiles(sh, i) ==
    IF i > Len(ScannedNames) THEN <<>>
    ELSE (IF sh.json[i] = "absent" THEN <<>>
          ELSE <<Entry(ScannedNames[i], JsonSourceOf(ScannedNames[i], sh.json[i]))>>)
         \o SchemaFiles(sh, i + 1)

InitProject ==
    /\ pc = "start"
    /\ shape \in ProjectShapes
    /\ collections = CASE shape.config = "listed" -> Ok(ListedCollections(shape))
                       [] shape.config = "empty" -> Ok(<<>>)
                       [] shape.config = "failed" -> Err("config")
    /\ dirs = IF shape.directory = "read" THEN Ok(DirectoryCollections)
              ELSE Err("Failed to read content directory")
    /\ json_schema = SchemaFiles(shape, 1)
    /\ zod_schema = <<>>
    /\ config_text = <<>>
    /\ result = None
    /\ any_of = <<>>
    /\ type_info = None
    /\ schema_text = <<>>
    /\ probe = NoProbe
    /\ zod_out = None

ScanProjectWithContentDir ==
    /\ pc = "start"
    /\ result' = scan_project_with_content_dir(collections, dirs, json_schema)
    /\ pc' = "scanned"
    /\ UNCHANGED <<shape, schema_text, probe, zod_out, any_of, type_info,
                   json_schema, zod_schema, config_text, dirs, collections>>

NextProject == ScanProjectWithContentDir

SpecProject == InitProject /\ [][NextProject]_vars

\* the collections the scan discovers
Discovered ==
    IF collections.tag = "Ok" /\ collections.val # <<>>
    THEN collections ELSE dirs

\* the scan of a project in which collection i is the only one
ScannedAlone(i) ==
    scan_project_with_content_dir(Ok(<<Discovered.val[i]>>),
                                  Ok(<<Discovered.val[i]>>), json_schema)

\* the merge of the sources of collection i fails
MergeFails(i) ==
    LET name == Discovered.val[i].name
    IN  create_complete_schema(name, MapGet(json_schema, name),
                               Discovered.val[i].schema).tag = "Err"

\* C28: a failure of the schema merge of one collection never fails the
\* scan and never drops or alters another collection: every discovered
\* collection is returned, in order, the failing one without
\* complete_schema and every other one with the complete_schema it has when
\* scanned on its own.
C28_MergeFailureIsolated ==
    (pc = "scanned" /\ Discovered.tag = "Ok") =>
        /\ result.tag = "Ok"
        /\ Len(result.val) = Len(Discovered.val)
        /\ \A i \in DOMAIN Discovered.val :
              /\ result.val[i].name = Discovered.val[i].name
              /\ result.val[i].path = Discovered.val[i].path
              /\ result.val[i].schema = Discovered.val[i].schema
              /\ MergeFails(i) => result.val[i].complete_schema = <<>>
              /\ result.val[i] = ScannedAlone(i).val[1]

\* blog has no usable source, notes has both: both are returned, blog
\* without complete_schema, notes with one
C28_Witness ==
    /\ pc = "scanned"
    /\ shape.config = "listed"
    /\ shape.json[1] = "unusable" /\ shape.heuristic[1] = "unusable"
    /\ shape.json[2] = "usable" /\ shape.heuristic[2] = "usable"
    /\ result.tag = "Ok"
    /\ Len(result.val) = 2
    /\ result.val[1].name = NameBlog /\ result.val[1].complete_schema = <<>>
    /\ result.val[2].name = NameNotes /\ result.val[2].complete_schema # <<>>

-----------------------------------------------------------------------------
(* commands/watcher.rs: the event loop of the project watcher.             *)
(* In this specification any_of holds the channel (tx, rx), shape counts   *)
(* the events the notify callback has sent, and result is the state of the *)
(* spawned task: event_buffer, whether more than 500 ms have passed since  *)
(* last_event_time, the events handed to process_events so far and what    *)
(* was emitted to the frontend.                                            *)

MaxEvents == 3

EventKinds == {"Modify", "Access"}

\* a markdown file, a schema-related file, any other file
EventPaths == {"post.md", "src/content/config.ts", "cover.png"}

is_schema_file(path) == path = "src/content/config.ts"

IsMarkdown(path) == path = "post.md"

\* the file-changed events of the loop over `events`, in order
RECURSIVE FileChanged(_)
FileChanged(events) ==
    IF events = <<>> THEN <<>>
    ELSE (IF /\ Head(events).kind = "Modify"
             /\ ~is_schema_file(Head(events).path)
             /\ IsMarkdown(Head(events).path)
          THEN <<[emit |-> "file-changed", path |-> Head(events).path]>>
          ELSE <<>>)
         \o FileChanged(Tail(events))

\* what process_events emits: file-changed per markdown path, then
\* schema-changed once if any schema file changed
process_events(events) ==
    LET schema_changed == \E i \in DOMAIN events :
                              /\ events[i].kind = "Modify"
                              /\ is_schema_file(events[i].path)
    IN  FileChanged(events)
        \o (IF schema_changed THEN <<[emit |-> "schema-changed", path |-> ""]>>
            ELSE <<>>)

\* `let mut event_buffer = Vec::new(); let mut last_event_time = now()`
InitWatcher ==
    /\ pc = "recv"
    /\ shape = [sent |-> 0]
    /\ any_of = <<>>
    /\ result = [event_buffer |-> <<>>, elapsed |-> FALSE,
                 handed |-> <<>>, emitted |-> <<>>]
    /\ collections = <<>>
    /\ dirs = {}
    /\ json_schema = <<>>
    /\ zod_schema = <<>>
    /\ config_text = <<>>
    /\ type_info = None
    /\ schema_text = <<>>
    /\ probe = NoProbe
    /\ zod_out = None

\* the notify callback: `tx.send(event)`
WatcherSend ==
    /\ shape.sent < MaxEvents
    /\ \E kind \in EventKinds, path \in EventPaths :
          any_of' = Append(any_of, [id |-> shape.sent + 1, kind |-> kind,
                                    path |-> path])
    /\ shape' = [sent |-> shape.sent + 1]
    /\ UNCHANGED <<pc, schema_text, probe, zod_out, type_info, json_schema,
                   zod_schema, result, config_text, dirs, collections>>

\* more than 500 ms pass since last_event_time
Elapse500ms ==
    /\ ~result.elapsed
    /\ result' = [result EXCEPT !.elapsed = TRUE]
    /\ UNCHANGED <<pc, shape, schema_text, probe, zod_out, any_of, type_info,
                   json_schema, zod_schema, config_text, dirs, collections>>

\* one iteration of `while let Ok(event) = rx.recv()`
WatcherLoop ==
    /\ pc = "recv"
    /\ any_of # <<>>
    /\ any_of' = Tail(any_of)
    /\ LET event_buffer == Append(result.event_buffer, Head(any_of))
       IN  result' =
               IF result.elapsed
               THEN [event_buffer |-> <<>>,
                     elapsed |-> FALSE,
                     handed |-> result.handed \o event_buffer,
                     emitted |-> result.emitted \o process_events(event_buffer)]
               ELSE [result EXCEPT !.event_buffer = event_buffer,
                                   !.elapsed = FALSE]
    /\ UNCHANGED <<pc, shape, schema_text, probe, zod_out, type_info,
                   json_schema, zod_schema, config_text, dirs, collections>>

NextWatcher == WatcherSend \/ Elapse500ms \/ WatcherLoop

SpecWatcher == InitWatcher /\ [][NextWatcher]_vars

\* the spawned task runs whenever the channel holds an event, and time
\* passes; the file system need not produce further events
SpecWatcherLive ==
    SpecWatcher /\ WF_vars(WatcherLoop) /\ WF_vars(Elapse500ms)

Received(id) ==
    \E i \in DOMAIN result.event_buffer : result.event_buffer[i].id = id

Handed(id) == \E i \in DOMAIN result.handed : result.handed[i].id = id

\* no event is handed to process_events twice, and none stays buffered
\* after it was handed over
HandedOnce ==
    /\ \A i, j \in DOMAIN result.handed :
          result.handed[i].id = result.handed[j].id => i = j
    /\ \A id \in 1..MaxEvents : ~(Received(id) /\ Handed(id))

\* C29: every file event received from the watcher channel is eventually
\* handed to process_events, even if no further file event arrives after
\* it, and no buffered event is handed to process_events twice.
C29_DebouncedDelivery ==
    /\ \A id \in 1..MaxEvents : (Received(id) \/ Handed(id)) ~> Handed(id)
    /\ []HandedOnce

\* the part of C29 that the loop does guarantee
WatcherHandsOnce == []HandedOnce

-----------------------------------------------------------------------------
(* The overlay of the heuristic schema on the JSON backbone                *)

\* a heuristic schema is given and the JSON Schema parses
OverlayCase == JsonDerived.tag = "Ok" /\ zod_schema # <<>>

\* the attributes of a field the overlay never writes
Untouched(field) ==
    <<field.name, field.label, field.required, field.constraints,
      field.description, field.default, field.enum_values, field.is_nested,
      field.parent_path>>

\* the only type change is string to image
OnlyStringToImage(before, after, string, image) ==
    after = before \/ (before = string /\ after = image)

\* the heuristic schema names a field the backbone lacks
UnmatchedHeuristicField ==
    /\ zod_schema[1].well_formed
    /\ zod_schema[1].fields # <<>>
    /\ \E k \in DOMAIN HeuristicFields :
          ~HasField(JsonDerived.val.fields, HeuristicFields[k].name)

\* C30: overlaying the heuristic schema on a JSON backbone changes nothing
\* except reference_collection, array_reference_collection, field_type
\* (only string to image) and sub_type (only string to image): number,
\* order, names, labels, required flags, constraints, defaults, enum
\* values, is_nested and parent_path of the fields are those of the
\* JSON-only result; a heuristic field of an unmatched name adds no field,
\* and an unparseable heuristic schema leaves the JSON-only result
\* unchanged and still returns Ok.
C30_OverlayFrame ==
    pc = "merged" /\ OverlayCase =>
        /\ result.tag = "Ok"
        /\ result.val.collection_name = JsonDerived.val.collection_name
        /\ Len(result.val.fields) = Len(JsonDerived.val.fields)
        /\ \A i \in DOMAIN JsonDerived.val.fields :
              LET merged == result.val.fields[i]
                  backbone == JsonDerived.val.fields[i]
              IN  /\ DOMAIN merged = DOMAIN backbone
                  /\ Untouched(merged) = Untouched(backbone)
                  /\ OnlyStringToImage(backbone.field_type, merged.field_type,
                                       "string", "image")
                  /\ OnlyStringToImage(backbone.sub_type, merged.sub_type,
                                       <<"string">>, <<"image">>)
        /\ extract_zod_enhancements(zod_schema[1]).tag = "Err" =>
              result = JsonDerived

\* a two-field backbone overlaid by a heuristic schema that upgrades one
\* field to image and names a field the backbone lacks
C30_Witness ==
    /\ pc = "merged" /\ OverlayCase
    /\ UnmatchedHeuristicField
    /\ Len(HeuristicFields) = 2
    /\ Len(result.val.fields) = 2
    /\ result # JsonDerived
    /\ \E i \in DOMAIN result.val.fields :
          /\ JsonDerived.val.fields[i].field_type = "string"
          /\ result.val.fields[i].field_type = "image"

\* the heuristic schema does not deserialize: the JSON-only result is
\* returned as it is
C30_WitnessUnparseable ==
    /\ pc = "merged" /\ OverlayCase
    /\ ~zod_schema[1].well_formed
    /\ result = JsonDerived
    /\ Len(result.val.fields) = 2

=============================================================================
